---- MODULE Spec2Model ----
(***************************************************************************)
(* Bankroll ledger of the betting engine: the persisted singleton state,   *)
(* its transaction log, and the ACTIVE / DEGRADED / PAUSED state machine   *)
(* evaluated by BankrollService.update_bankroll, together with             *)
(* BankrollManager.reset.                                                  *)
(*                                                                         *)
(* Units are whole numbers.  Drawdowns are exact fractions <<num, den>>    *)
(* in lowest terms (den > 0).  kelly_fraction is held in hundredths        *)
(* (25 = 0.25).  Thresholds are held in percent (40 = 0.40).               *)
(***************************************************************************)
EXTENDS Integers, Sequences, FiniteSets, TLC

\* ------------------------------------------------------------------ bounds
MaxCalls == 3            \* operations started in one run
MaxSeed == 8             \* longest losing streak already persisted at start
MaxConcCalls == 2        \* calls started in one run of the interleaved specification
MaxBets == 1             \* process_bet calls started in one run
MaxSettles == 1          \* ledger operations in one run of the pipeline specification
MaxSims == 2             \* seasons in one Monte Carlo batch (N_SIMULATIONS, n_sims)

\* ------------------------------------------------------- program constants
InitialUnits == 100
KellyActive == 25
KellyDegraded == 10
KellyPaused == 0
PauseLosses == 10
PauseDrawdownPct == 40
DegradeDrawdownPct == 20
RecoverDrawdownPct == 15
StreakWindow == 20
GamesPerSeason == 1230
InitialBankroll == 100
RuinThreshold == 10
\* Ledger amounts are held in ten-thousandths of a unit, the precision to
\* which the Stake Engine rounds a stake: round(stake_units, 4)
TicksPerUnit == 10000

\* n units as a ledger amount
Units(n) == n * TicksPerUnit

\* ------------------------------------------------------------------ inputs
Results == {"WIN", "LOSS", "PUSH"}
Stakes == {Units(1), Units(20), Units(25), Units(120)}
Profits == {Units(10), Units(15)}
ResetUnits == {Units(0), Units(20), Units(100)}
Callers == {1, 2}
\* probabilities, odds, EVs and thresholds in hundredths; dates as <<month, day>>
EvProbabilities == {-10, 0, 40, 50, 52, 55, 60, 80, 100, 120}
EvOdds == {50, 100, 125, 200, 300}
FilterProbabilities == {-10, 40, 50, 52, 54, 55, 60, 120}
FilterEvs == {-5, 0, 2, 3, 20, 300}
FilterMinProbabilities == {40, 55, 60}
FilterMinEvs == {-10, 3, 10}
StakeProbabilities == {0, 40, 60, 80}
StakeOdds == {50, 100, 200, 300}
StakeBankrolls == {<<0, 1>>, <<100, 1>>, <<2003, 2000>>, <<1, 10>>, <<20, 1>>}
StakeKellys == {0, 10, 25}
StakeCaps == {2, 5}
StakeAggressiveness == {<<0, 1>>, <<1, 2>>, <<1, 1>>}
GuardProbabilities == {-10, 52, 60, 120}
GuardEvs == {-5, 3, 20}
BetProbabilities == {-10, 40, 52, 60}
BetOdds == {100, 200}
BetDates == {<<11, 15>>, <<1, 15>>, <<2, 10>>}
GameIds == {"G1"}
Vias == {"process_bet", "process_game"}
\* the last one is 4.1667 units, a stake as the Stake Engine rounds it
SettleStakes == {Units(25), Units(120), 41667}
SettleProfits == {Units(10)}
\* prob_bias of the scenarios run over the same sampled seasons, in hundredths
ScenarioBiases == <<0, -5, -10>>
\* Sampled seasons.  Rows first .. first + n - 1 carry the given model
\* probability, odds and recorded outcome; every other row of the season is a
\* 50% game at odds 1.91 that the home side lost.  malformed: those rows
\* lack the odds_home value.
Samples ==
    {[first |-> 400, n |-> 60, prob_home |-> 62, odds_home |-> 200,
      outcome_home |-> 0, malformed |-> FALSE],
     [first |-> 1185, n |-> 45, prob_home |-> 62, odds_home |-> 200,
      outcome_home |-> 0, malformed |-> FALSE],
     [first |-> 1000, n |-> 5, prob_home |-> 62, odds_home |-> 200,
      outcome_home |-> 1, malformed |-> FALSE],
     [first |-> 2, n |-> 1, prob_home |-> 62, odds_home |-> 200,
      outcome_home |-> 0, malformed |-> TRUE]}
Entries == {"monte_carlo", "sensitivity_analysis"}
Dates == {<<10, 15>>, <<11, 30>>, <<12, 1>>, <<12, 24>>, <<12, 25>>, <<1, 15>>,
          <<2, 10>>, <<3, 15>>, <<6, 1>>}

VARIABLES
    current_units,    \* bankroll_state.current_units
    initial_units,    \* bankroll_state.initial_units
    peak_units,       \* bankroll_state.peak_bankroll / peak_units
    max_drawdown,     \* bankroll_state.max_drawdown, a fraction <<num, den>>
    status,           \* bankroll_state.status
    kelly_fraction,   \* bankroll_state.kelly_fraction, in hundredths
    transactions,     \* the transactions table, in id order
    pc,               \* per caller: position inside update_bankroll
    args,             \* per caller: the arguments of the call in progress
    row,              \* per caller: the row read at the start of the write block
    last,             \* the operation that finished last, with its return value
    ncalls,           \* number of operations started
    call,             \* a call of one of the pure functions: inputs and result
    bet,              \* process_bet: position, arguments and what it has read
    decision,         \* the BetDecision returned last
    shadow_bets,      \* the shadow_bets table, in id order
    nbets,            \* number of process_bet calls started
    sim               \* a Monte Carlo batch: its tasks, the season being run, results

ledgerVars == <<current_units, initial_units, peak_units, max_drawdown,
                status, kelly_fraction, transactions>>
callVars == <<pc, args, row>>
pipeVars == <<call, bet, decision, shadow_bets, nbets, sim>>
vars == <<current_units, initial_units, peak_units, max_drawdown, status,
          kelly_fraction, transactions, pc, args, row, last, ncalls,
          call, bet, decision, shadow_bets, nbets, sim>>

\* ---------------------------------------------------------------- fractions
RECURSIVE Gcd(_, _)
Gcd(a, b) == IF b = 0 THEN a ELSE Gcd(b, a % b)

Abs(x) == IF x < 0 THEN -x ELSE x

\* n / d in lowest terms, d > 0
Frac(n, d) == LET g == Gcd(Abs(n), d) IN <<n \div g, d \div g>>

FracZero == <<0, 1>>

\* f > g
FracGt(f, g) ==
    LET d == Gcd(f[2], g[2]) IN f[1] * (g[2] \div d) > g[1] * (f[2] \div d)

\* f > pct / 100
GtPct(f, pct) == f[1] * 100 > pct * f[2]

\* f < pct / 100
LtPct(f, pct) == f[1] * 100 < pct * f[2]

\* max(f, g) as Python computes it: the first argument unless the second is larger
FracMax(f, g) == IF FracGt(g, f) THEN g ELSE f

\* variant: the stored value simply follows the second argument
IntMaxLast(a, b) == b

IntMax(a, b) == IF b > a THEN b ELSE a

\* ------------------------------------------------------- update_bankroll
\* variant: a WIN is credited net of the stake
ChangeWinNetOfStake(result, stake_units, profit_units) ==
    IF result = "WIN" THEN profit_units - stake_units
    ELSE IF result = "LOSS" THEN -stake_units
    ELSE 0

\* variant: a LOSS is offset by profit_units
ChangeLossOffsetByProfit(result, stake_units, profit_units) ==
    IF result = "WIN" THEN profit_units
    ELSE IF result = "LOSS" THEN profit_units - stake_units
    ELSE 0

\* the signed delta applied for a result
Change(result, stake_units, profit_units) ==
    IF result = "WIN" THEN profit_units
    ELSE IF result = "LOSS" THEN -stake_units
    ELSE 0

\* variant: a PUSH is recorded as a winning bet
TxTypePushAsWin(result) ==
    IF result = "WIN" THEN "BET_WIN"
    ELSE IF result = "LOSS" THEN "BET_LOSS"
    ELSE "BET_WIN"

TxType(result) ==
    IF result = "WIN" THEN "BET_WIN"
    ELSE IF result = "LOSS" THEN "BET_LOSS"
    ELSE "ADJUSTMENT"

\* (new_peak - new_balance) / new_peak if new_peak > 0 else 0.0
CurrentDrawdown(new_peak, new_balance) ==
    IF new_peak > 0 THEN Frac(new_peak - new_balance, new_peak) ELSE FracZero

\* the rows of type BET_WIN / BET_LOSS, newest first, at most StreakWindow of them
RECURSIVE BetRowsDesc(_)
BetRowsDesc(txs) ==
    IF txs = <<>> THEN <<>>
    ELSE LET t == txs[Len(txs)]
             rest == BetRowsDesc(SubSeq(txs, 1, Len(txs) - 1))
         IN IF t.type \in {"BET_WIN", "BET_LOSS"} THEN <<t.type>> \o rest ELSE rest

Limit(s, n) == IF Len(s) > n THEN SubSeq(s, 1, n) ELSE s

RECURSIVE LeadingLosses(_)
LeadingLosses(rows) ==
    IF rows = <<>> THEN 0
    ELSE IF rows[1] = "BET_LOSS" THEN 1 + LeadingLosses(Tail(rows))
    ELSE 0

\* the rows of every type, newest first
RowsDesc(txs) == [i \in 1..Len(txs) |-> txs[Len(txs) + 1 - i].type]

\* variant: the streak is counted over the rows of every type
CountConsecutiveLossesAllRows(txs) == LeadingLosses(Limit(RowsDesc(txs), StreakWindow))

CountConsecutiveLosses(txs) == LeadingLosses(Limit(BetRowsDesc(txs), StreakWindow))

\* variant: the ACTIVE / DEGRADED rules are evaluated before the pause rule
UpdateStatusDegradeFirst(st, kelly, current_drawdown, consecutive_losses) ==
    IF st = "ACTIVE" /\ GtPct(current_drawdown, DegradeDrawdownPct)
    THEN <<"DEGRADED", KellyDegraded>>
    ELSE IF st = "DEGRADED" /\ LtPct(current_drawdown, RecoverDrawdownPct)
         THEN <<"ACTIVE", KellyActive>>
    ELSE IF consecutive_losses >= PauseLosses THEN <<"PAUSED", KellyPaused>>
    ELSE IF GtPct(current_drawdown, PauseDrawdownPct) THEN <<"PAUSED", KellyPaused>>
    ELSE <<st, kelly>>

\* variant: ACTIVE degrades at a drawdown of 0.20 itself
UpdateStatusDegradeAtThreshold(st, kelly, current_drawdown, consecutive_losses) ==
    IF consecutive_losses >= PauseLosses THEN <<"PAUSED", KellyPaused>>
    ELSE IF GtPct(current_drawdown, PauseDrawdownPct) THEN <<"PAUSED", KellyPaused>>
    ELSE IF st = "ACTIVE" /\ ~LtPct(current_drawdown, DegradeDrawdownPct)
         THEN <<"DEGRADED", KellyDegraded>>
    ELSE IF st = "DEGRADED" /\ LtPct(current_drawdown, RecoverDrawdownPct)
         THEN <<"ACTIVE", KellyActive>>
    ELSE <<st, kelly>>

\* variant: DEGRADED recovers as soon as the drawdown is back under 0.20
UpdateStatusNoHysteresis(st, kelly, current_drawdown, consecutive_losses) ==
    IF consecutive_losses >= PauseLosses THEN <<"PAUSED", KellyPaused>>
    ELSE IF GtPct(current_drawdown, PauseDrawdownPct) THEN <<"PAUSED", KellyPaused>>
    ELSE IF st = "ACTIVE" /\ GtPct(current_drawdown, DegradeDrawdownPct)
         THEN <<"DEGRADED", KellyDegraded>>
    ELSE IF st = "DEGRADED" /\ LtPct(current_drawdown, DegradeDrawdownPct)
         THEN <<"ACTIVE", KellyActive>>
    ELSE <<st, kelly>>

\* variant: a status transition leaves the stored kelly_fraction as it was
UpdateStatusKeepsKelly(st, kelly, current_drawdown, consecutive_losses) ==
    IF consecutive_losses >= PauseLosses THEN <<"PAUSED", kelly>>
    ELSE IF GtPct(current_drawdown, PauseDrawdownPct) THEN <<"PAUSED", kelly>>
    ELSE IF st = "ACTIVE" /\ GtPct(current_drawdown, DegradeDrawdownPct)
         THEN <<"DEGRADED", kelly>>
    ELSE IF st = "DEGRADED" /\ LtPct(current_drawdown, RecoverDrawdownPct)
         THEN <<"ACTIVE", kelly>>
    ELSE <<st, kelly>>

\* the state machine: <<new_status, new_kelly>> from the committed status and kelly
UpdateStatus(st, kelly, current_drawdown, consecutive_losses) ==
    IF consecutive_losses >= PauseLosses THEN <<"PAUSED", KellyPaused>>
    ELSE IF GtPct(current_drawdown, PauseDrawdownPct) THEN <<"PAUSED", KellyPaused>>
    ELSE IF st = "ACTIVE" /\ GtPct(current_drawdown, DegradeDrawdownPct)
         THEN <<"DEGRADED", KellyDegraded>>
    ELSE IF st = "DEGRADED" /\ LtPct(current_drawdown, RecoverDrawdownPct)
         THEN <<"ACTIVE", KellyActive>>
    ELSE <<st, kelly>>

\* The write block of update_bankroll.  r is the row read at its start
\* (current, peak, max_dd); L is the committed ledger at the time of the insert.
WriteBlock(L, r, result, stake_units, profit_units) ==
    LET change == Change(result, stake_units, profit_units)
        new_balance == r.current + change
        new_peak == IntMax(r.peak, new_balance)
        current_drawdown == CurrentDrawdown(new_peak, new_balance)
        new_max_drawdown == FracMax(r.max_dd, current_drawdown)
        txs == Append(L.transactions,
                      [type |-> TxType(result), amount |-> change,
                       balance_after |-> new_balance])
        losses == CountConsecutiveLosses(txs)
        sk == UpdateStatus(L.status, L.kelly_fraction, current_drawdown, losses)
    IN [current_units |-> new_balance,
        initial_units |-> L.initial_units,
        peak_units |-> new_peak,
        max_drawdown |-> new_max_drawdown,
        status |-> sk[1],
        kelly_fraction |-> sk[2],
        transactions |-> txs]

RowOf(L) == [current |-> L.current_units, peak |-> L.peak_units,
             max_dd |-> L.max_drawdown]

\* variant: the PAUSED test at the head of update_bankroll is missing
UpdatedWithoutPauseTest(L, result, stake_units, profit_units) ==
    WriteBlock(L, RowOf(L), result, stake_units, profit_units)

\* one whole update_bankroll call with no other caller in between
Updated(L, result, stake_units, profit_units) ==
    IF L.status = "PAUSED" THEN L
    ELSE WriteBlock(L, RowOf(L), result, stake_units, profit_units)

\* ------------------------------------------------- exact decimal arithmetic
\* Probabilities, odds, EV, stakes and multipliers are fractions <<num, den>>
\* in lowest terms (den > 0).
Pct(x) == Frac(x, 100)

FracOne == <<1, 1>>

FracOfInt(n) == <<n, 1>>

\* a ledger amount as a number of units
UnitsOf(amount) == Frac(amount, TicksPerUnit)

\* Products are taken after the common factors are cancelled, which keeps
\* the intermediate integers small.
FracMul(f, g) ==
    LET a == Gcd(Abs(f[1]), g[2])
        b == Gcd(Abs(g[1]), f[2])
    IN Frac((f[1] \div a) * (g[1] \div b), (f[2] \div b) * (g[2] \div a))

FracSub(f, g) ==
    LET d == Gcd(f[2], g[2])
    IN Frac(f[1] * (g[2] \div d) - g[1] * (f[2] \div d), (f[2] \div d) * g[2])

FracAdd(f, g) == FracSub(f, <<-g[1], g[2]>>)

\* f / g for g > 0
FracDiv(f, g) == FracMul(f, <<g[2], g[1]>>)

FracLt(f, g) ==
    LET d == Gcd(f[2], g[2]) IN f[1] * (g[2] \div d) < g[1] * (f[2] \div d)

FracLe(f, g) ==
    LET d == Gcd(f[2], g[2]) IN f[1] * (g[2] \div d) <= g[1] * (f[2] \div d)

\* round(x, 4): the nearest multiple of 0.0001, an exact tie going to the even
\* one.  whole is floor(x); the four decimals come by long division, two
\* digits at a time.
Round4(f) ==
    LET whole == f[1] \div f[2]
        r0 == f[1] - whole * f[2]
        d1 == (r0 * 100) \div f[2]
        r1 == r0 * 100 - d1 * f[2]
        d2 == (r1 * 100) \div f[2]
        r == r1 * 100 - d2 * f[2]
        q == d1 * 100 + d2
        k == IF 2 * r > f[2] THEN q + 1
             ELSE IF 2 * r < f[2] THEN q
             ELSE IF q % 2 = 0 THEN q ELSE q + 1
    IN Frac(whole * 10000 + k, 10000)

\* ------------------------------------------------------------- EV Engine
EvError == [error |-> TRUE, ev |-> FracZero, is_value_bet |-> FALSE]

\* calculate_ev counting ev = 0 as a value bet
CalculateEvNonStrict(probability, odds) ==
    IF ~(FracLe(FracZero, probability) /\ FracLe(probability, FracOne)) THEN EvError
    ELSE IF FracLe(odds, FracOne) THEN EvError
    ELSE LET ev == FracSub(FracMul(probability, odds), FracOne)
         IN [error |-> FALSE, ev |-> ev, is_value_bet |-> FracLe(FracZero, ev)]

\* calculate_ev: a ValueError for a probability outside [0, 1] or odds <= 1.0
CalculateEv(probability, odds) ==
    IF ~(FracLe(FracZero, probability) /\ FracLe(probability, FracOne)) THEN EvError
    ELSE IF FracLe(odds, FracOne) THEN EvError
    ELSE LET ev == FracSub(FracMul(probability, odds), FracOne)
         IN [error |-> FALSE, ev |-> ev, is_value_bet |-> FracGt(ev, FracZero)]

\* ------------------------------------------------------------ Risk Filter
MinProbabilityPct == 55
DeadZoneLowPct == 50
DeadZoneHighPct == 55
MinEvPct == 3
AggressivenessNormal == FracOne
AggressivenessPreDeadline == Frac(1, 2)
AggressivenessEarlySeason == FracZero

Phases == {"EARLY", "MID", "PRE_DEADLINE", "LATE"}

\* RiskFilter() as config.py configures it
DefaultFilter == [min_probability |-> Pct(MinProbabilityPct),
                  min_ev |-> Pct(MinEvPct),
                  block_early_season |-> TRUE,
                  reduce_pre_deadline |-> TRUE]

SeqIf(cond, s) == IF cond THEN s ELSE <<>>

\* RiskFilter.validate with the dead zone ending at the filter's own
\* min_probability instead of config.PROBABILITY_DEAD_ZONE
RiskFilterValidateDeadZoneFromFilter(f, probability, ev, season_phase) ==
    LET dead == FracLe(Pct(DeadZoneLowPct), probability)
                    /\ FracLt(probability, f.min_probability)
        lowp == FracLt(probability, f.min_probability)
        lowev == FracLt(ev, f.min_ev)
        early == season_phase = "EARLY" /\ f.block_early_season
        pre == ~early /\ season_phase = "PRE_DEADLINE" /\ f.reduce_pre_deadline
        nonpos == FracLe(ev, FracZero)
        allowed == ~(dead \/ lowp \/ lowev \/ early \/ nonpos)
        aggressiveness == IF early THEN AggressivenessEarlySeason
                          ELSE IF pre THEN AggressivenessPreDeadline
                          ELSE AggressivenessNormal
    IN [allowed |-> allowed,
        reasons |-> SeqIf(dead, <<"DEAD_ZONE">>) \o SeqIf(lowp, <<"MIN_PROBABILITY">>)
                    \o SeqIf(lowev, <<"MIN_EV">>) \o SeqIf(early, <<"EARLY_SEASON">>)
                    \o SeqIf(pre, <<"PRE_DEADLINE_WARNING">>)
                    \o SeqIf(nonpos, <<"NON_POSITIVE_EV">>),
        aggressiveness |-> IF allowed THEN aggressiveness ELSE FracZero]

\* RiskFilter.validate returning at the first rule that blocks
RiskFilterValidateFirstRuleOnly(f, probability, ev, season_phase) ==
    LET dead == FracLe(Pct(DeadZoneLowPct), probability)
                    /\ FracLt(probability, Pct(DeadZoneHighPct))
        lowp == ~dead /\ FracLt(probability, f.min_probability)
        lowev == ~dead /\ ~lowp /\ FracLt(ev, f.min_ev)
        early == ~dead /\ ~lowp /\ ~lowev
                    /\ season_phase = "EARLY" /\ f.block_early_season
        pre == ~dead /\ ~lowp /\ ~lowev /\ ~early
                    /\ season_phase = "PRE_DEADLINE" /\ f.reduce_pre_deadline
        nonpos == ~dead /\ ~lowp /\ ~lowev /\ ~early /\ FracLe(ev, FracZero)
        allowed == ~(dead \/ lowp \/ lowev \/ early \/ nonpos)
        aggressiveness == IF early THEN AggressivenessEarlySeason
                          ELSE IF pre THEN AggressivenessPreDeadline
                          ELSE AggressivenessNormal
    IN [allowed |-> allowed,
        reasons |-> SeqIf(dead, <<"DEAD_ZONE">>) \o SeqIf(lowp, <<"MIN_PROBABILITY">>)
                    \o SeqIf(lowev, <<"MIN_EV">>) \o SeqIf(early, <<"EARLY_SEASON">>)
                    \o SeqIf(pre, <<"PRE_DEADLINE_WARNING">>)
                    \o SeqIf(nonpos, <<"NON_POSITIVE_EV">>),
        aggressiveness |-> IF allowed THEN aggressiveness ELSE FracZero]

\* RiskFilter.validate; season_phase is a phase or "NONE"
RiskFilterValidate(f, probability, ev, season_phase) ==
    LET dead == FracLe(Pct(DeadZoneLowPct), probability)
                    /\ FracLt(probability, Pct(DeadZoneHighPct))
        lowp == FracLt(probability, f.min_probability)
        lowev == FracLt(ev, f.min_ev)
        early == season_phase = "EARLY" /\ f.block_early_season
        pre == ~early /\ season_phase = "PRE_DEADLINE" /\ f.reduce_pre_deadline
        nonpos == FracLe(ev, FracZero)
        allowed == ~(dead \/ lowp \/ lowev \/ early \/ nonpos)
        aggressiveness == IF early THEN AggressivenessEarlySeason
                          ELSE IF pre THEN AggressivenessPreDeadline
                          ELSE AggressivenessNormal
    IN [allowed |-> allowed,
        reasons |-> SeqIf(dead, <<"DEAD_ZONE">>) \o SeqIf(lowp, <<"MIN_PROBABILITY">>)
                    \o SeqIf(lowev, <<"MIN_EV">>) \o SeqIf(early, <<"EARLY_SEASON">>)
                    \o SeqIf(pre, <<"PRE_DEADLINE_WARNING">>)
                    \o SeqIf(nonpos, <<"NON_POSITIVE_EV">>),
        aggressiveness |-> IF allowed THEN aggressiveness ELSE FracZero]

\* ----------------------------------------------------------- Stake Engine
MaxStakePct == 5
MinStakeUnits == Frac(1, 100)

\* calculate_kelly
CalculateKelly(probability, odds) ==
    IF FracLe(odds, FracOne) THEN FracZero
    ELSE FracDiv(FracSub(FracMul(probability, odds), FracOne), FracSub(odds, FracOne))

\* calculate_stake without the minimum-stake floor
CalculateStakeNoFloor(probability, odds, bankroll, fractional_kelly, max_stake_percent, aggressiveness) ==
    LET kelly == CalculateKelly(probability, odds)
        fractional_stake == FracMul(kelly, fractional_kelly)
        adjusted_stake == FracMul(fractional_stake, aggressiveness)
        stake_units == FracMul(bankroll, adjusted_stake)
        max_stake_units == FracMul(bankroll, max_stake_percent)
        was_capped == FracGt(stake_units, max_stake_units)
        capped == IF was_capped THEN max_stake_units ELSE stake_units
        nonneg == IF FracGt(FracZero, capped) THEN FracZero ELSE capped
    IN IF FracLe(kelly, FracZero)
       THEN [kelly_fraction |-> kelly, recommended_stake |-> FracZero,
             was_capped |-> FALSE, was_zeroed |-> TRUE]
       ELSE [kelly_fraction |-> kelly, recommended_stake |-> Round4(nonneg),
             was_capped |-> was_capped, was_zeroed |-> FALSE]

\* calculate_stake (stake_percent, which no caller reads, is left out)
CalculateStake(probability, odds, bankroll, fractional_kelly, max_stake_percent, aggressiveness) ==
    LET kelly == CalculateKelly(probability, odds)
        fractional_stake == FracMul(kelly, fractional_kelly)
        adjusted_stake == FracMul(fractional_stake, aggressiveness)
        stake_units == FracMul(bankroll, adjusted_stake)
        max_stake_units == FracMul(bankroll, max_stake_percent)
        was_capped == FracGt(stake_units, max_stake_units)
        capped == IF was_capped THEN max_stake_units ELSE stake_units
        below == FracLt(capped, MinStakeUnits)
        floored == IF below THEN FracZero ELSE capped
        nonneg == IF FracGt(FracZero, floored) THEN FracZero ELSE floored
    IN IF FracLe(kelly, FracZero)
       THEN [kelly_fraction |-> kelly, recommended_stake |-> FracZero,
             was_capped |-> FALSE, was_zeroed |-> TRUE]
       ELSE [kelly_fraction |-> kelly, recommended_stake |-> Round4(nonneg),
             was_capped |-> was_capped, was_zeroed |-> below]

\* ------------------------------------------------------------- Risk Guard
\* RiskGuard._determine_phase
DeterminePhase(month, day) ==
    IF month \in {10, 11} THEN "EARLY"
    ELSE IF month = 12 THEN (IF day < 25 THEN "EARLY" ELSE "MID")
    ELSE IF month = 1 THEN "MID"
    ELSE IF month = 2 THEN "PRE_DEADLINE"
    ELSE IF month \in {3, 4} THEN "LATE"
    ELSE "MID"

\* validate_bet without its own early-season rule, leaving EARLY to the filter
ValidateBetEarlyFromFilter(st, f, probability, ev, month, day) ==
    LET phase == DeterminePhase(month, day)
        filtered == RiskFilterValidate(f, probability, ev, phase)
    IN IF st = "PAUSED"
       THEN [allowed |-> FALSE, reasons |-> <<"CIRCUIT_BREAKER">>,
             aggressiveness |-> FracZero]
       ELSE IF filtered.allowed /\ st = "DEGRADED"
       THEN [filtered EXCEPT !.reasons = Append(@, "DEGRADED_WARNING")]
       ELSE filtered

\* validate_bet testing the season before the circuit breaker
ValidateBetSeasonFirst(st, f, probability, ev, month, day) ==
    LET phase == DeterminePhase(month, day)
        filtered == RiskFilterValidate(f, probability, ev, phase)
    IN IF phase = "EARLY"
       THEN [allowed |-> FALSE, reasons |-> <<"HARD_RULE_EARLY_SEASON">>,
             aggressiveness |-> FracZero]
       ELSE IF st = "PAUSED"
       THEN [allowed |-> FALSE, reasons |-> <<"CIRCUIT_BREAKER">>,
             aggressiveness |-> FracZero]
       ELSE IF filtered.allowed /\ st = "DEGRADED"
       THEN [filtered EXCEPT !.reasons = Append(@, "DEGRADED_WARNING")]
       ELSE filtered

\* variant: in DEGRADED the warning replaces the filter's verdict by a block
ValidateBetDegradedOverrides(st, f, probability, ev, month, day) ==
    LET phase == DeterminePhase(month, day)
        filtered == RiskFilterValidate(f, probability, ev, phase)
    IN IF st = "PAUSED"
       THEN [allowed |-> FALSE, reasons |-> <<"CIRCUIT_BREAKER">>,
             aggressiveness |-> FracZero]
       ELSE IF phase = "EARLY"
       THEN [allowed |-> FALSE, reasons |-> <<"HARD_RULE_EARLY_SEASON">>,
             aggressiveness |-> FracZero]
       ELSE IF st = "DEGRADED"
       THEN [allowed |-> FALSE,
             reasons |-> Append(filtered.reasons, "DEGRADED_WARNING"),
             aggressiveness |-> FracZero]
       ELSE filtered

\* RiskGuard.validate_bet; st is bankroll_service.operational_status as read
\* at its first line, f the configuration of its risk_filter
ValidateBet(st, f, probability, ev, month, day) ==
    LET phase == DeterminePhase(month, day)
        filtered == RiskFilterValidate(f, probability, ev, phase)
    IN IF st = "PAUSED"
       THEN [allowed |-> FALSE, reasons |-> <<"CIRCUIT_BREAKER">>,
             aggressiveness |-> FracZero]
       ELSE IF phase = "EARLY"
       THEN [allowed |-> FALSE, reasons |-> <<"HARD_RULE_EARLY_SEASON">>,
             aggressiveness |-> FracZero]
       ELSE IF filtered.allowed /\ st = "DEGRADED"
       THEN [filtered EXCEPT !.reasons = Append(@, "DEGRADED_WARNING")]
       ELSE filtered

\* ---------------------------------------------------------- Bet Pipeline
NoEv == [error |-> FALSE, ev |-> FracZero, is_value_bet |-> FALSE]
NoRisk == [allowed |-> FALSE, reasons |-> <<>>, aggressiveness |-> FracZero]
NoStake == [kelly_fraction |-> FracZero, recommended_stake |-> FracZero,
            was_capped |-> FALSE, was_zeroed |-> FALSE]

\* BetDecision; has_ev, has_risk and has_stake tell a result from None
BetDecision(game_id, d, stake_units, reason, ev_res, risk, stake_res) ==
    [game_id |-> game_id, decision |-> d, stake_units |-> stake_units,
     reason |-> reason,
     has_ev |-> ev_res # NoEv, ev_result |-> ev_res,
     has_risk |-> risk # NoRisk, risk_decision |-> risk,
     has_stake |-> stake_res # NoStake, stake_result |-> stake_res]

\* BetPipeline._pass and BetPipeline._block: stake_units keeps its default 0.0
PassDecision(game_id, reason, ev_res, risk, stake_res) ==
    BetDecision(game_id, "PASS", FracZero, <<reason>>, ev_res, risk, stake_res)

BlockDecision(game_id, reasons, ev_res, risk) ==
    BetDecision(game_id, "BLOCKED", FracZero, reasons, ev_res, risk, NoStake)

NoDecision == BetDecision("none", "NONE", FracZero, <<>>, NoEv, NoRisk, NoStake)

NoSnapshot == [status |-> "NONE", current_units |-> 0, kelly_fraction |-> 0]

NoCall == [fn |-> "none", args |-> <<>>, done |-> TRUE, out |-> <<>>]

NoBet == [pc |-> "idle", via |-> "none", game_id |-> "none",
          probability |-> FracZero, odds |-> FracZero, month |-> 1, day |-> 1,
          guard_status |-> "NONE", snapshot |-> NoSnapshot,
          ev_result |-> NoEv, risk_decision |-> NoRisk]

\* no Monte Carlo batch
NoSim == [entry |-> "none"]

\* --------------------------------------------------------------- _init_db
Fresh == [current_units |-> Units(InitialUnits),
          initial_units |-> Units(InitialUnits),
          peak_units |-> Units(InitialUnits),
          max_drawdown |-> FracZero,
          status |-> "ACTIVE",
          kelly_fraction |-> KellyActive,
          transactions |-> <<>>]

\* the ledger a service finds when it is constructed over a database in which
\* k calls LOSS(1) were already applied to a fresh ledger
RECURSIVE Persisted(_)
Persisted(k) == IF k = 0 THEN Fresh ELSE Updated(Persisted(k - 1), "LOSS", Units(1), 0)

Ledger == [current_units |-> current_units,
           initial_units |-> initial_units,
           peak_units |-> peak_units,
           max_drawdown |-> max_drawdown,
           status |-> status,
           kelly_fraction |-> kelly_fraction,
           transactions |-> transactions]

NoArgs == [result |-> "PUSH", stake_units |-> 0, profit_units |-> 0]
NoRow == [current |-> 0, peak |-> 0, max_dd |-> FracZero]
NoOp == [op |-> "none", result |-> "PUSH", stake_units |-> 0, profit_units |-> 0,
         units |-> 0, ret |-> 0]

Init ==
    /\ \E k \in 0..MaxSeed :
          LET L == Persisted(k) IN
          /\ current_units = L.current_units
          /\ initial_units = L.initial_units
          /\ peak_units = L.peak_units
          /\ max_drawdown = L.max_drawdown
          /\ status = L.status
          /\ kelly_fraction = L.kelly_fraction
          /\ transactions = L.transactions
    /\ pc = [c \in Callers |-> "idle"]
    /\ args = [c \in Callers |-> NoArgs]
    /\ row = [c \in Callers |-> NoRow]
    /\ last = NoOp
    /\ ncalls = 0
    /\ call = NoCall
    /\ bet = NoBet
    /\ decision = NoDecision
    /\ shadow_bets = <<>>
    /\ nbets = 0
    /\ sim = NoSim

Store(L) ==
    /\ current_units' = L.current_units
    /\ initial_units' = L.initial_units
    /\ peak_units' = L.peak_units
    /\ max_drawdown' = L.max_drawdown
    /\ status' = L.status
    /\ kelly_fraction' = L.kelly_fraction
    /\ transactions' = L.transactions

AllIdle == \A c \in Callers : pc[c] = "idle"

UpdateOp(result, stake_units, profit_units, returned) ==
    [op |-> "update", result |-> result, stake_units |-> stake_units,
     profit_units |-> profit_units, units |-> 0, ret |-> returned]

\* BankrollService.update_bankroll, run from call to return with no other
\* caller active
UpdateBankroll(result, stake_units, profit_units) ==
    /\ AllIdle
    /\ ncalls < MaxCalls
    /\ Store(Updated(Ledger, result, stake_units, profit_units))
    /\ last' = UpdateOp(result, stake_units, profit_units,
                        Updated(Ledger, result, stake_units, profit_units).current_units)
    /\ ncalls' = ncalls + 1
    /\ UNCHANGED <<callVars, pipeVars>>

\* BankrollManager.reset
ResetLedger(L, units) ==
    [L EXCEPT !.current_units = units,
              !.initial_units = units,
              !.peak_units = units,
              !.max_drawdown = FracZero,
              !.transactions = <<[type |-> "RESET", amount |-> units,
                                  balance_after |-> units]>>]

Reset(units) ==
    /\ AllIdle
    /\ ncalls < MaxCalls
    /\ Store(ResetLedger(Ledger, units))
    /\ last' = [NoOp EXCEPT !.op = "reset", !.units = units]
    /\ ncalls' = ncalls + 1
    /\ UNCHANGED <<callVars, pipeVars>>

Next ==
    \/ \E result \in Results, s \in Stakes, p \in Profits :
          UpdateBankroll(result, s, p)
    \/ \E u \in ResetUnits : Reset(u)

Spec == Init /\ [][Next]_vars

\* ---------------------------------------------- update_bankroll, by its steps
\* get_state() and the PAUSED test that opens update_bankroll: a PAUSED ledger
\* returns its current_units at once, any other status goes on to the write block
Begin(c, result, stake_units, profit_units) ==
    /\ pc[c] = "idle"
    /\ ncalls < MaxConcCalls
    /\ ncalls' = ncalls + 1
    /\ IF status = "PAUSED"
       THEN /\ last' = UpdateOp(result, stake_units, profit_units, current_units)
            /\ UNCHANGED <<pc, args>>
       ELSE /\ pc' = [pc EXCEPT ![c] = "checked"]
            /\ args' = [args EXCEPT ![c] = [result |-> result,
                                            stake_units |-> stake_units,
                                            profit_units |-> profit_units]]
            /\ UNCHANGED last
    /\ UNCHANGED <<ledgerVars, row, pipeVars>>

\* SELECT * FROM bankroll_state inside the with-block; sqlite3 opens the
\* transaction only at the INSERT, so the row is read outside it
ReadRow(c) ==
    /\ pc[c] = "checked"
    /\ pc' = [pc EXCEPT ![c] = "read"]
    /\ row' = [row EXCEPT ![c] = RowOf(Ledger)]
    /\ UNCHANGED <<ledgerVars, args, last, ncalls, pipeVars>>

\* INSERT, _count_consecutive_losses, _update_status, UPDATE and the commit:
\* one database transaction, computed from the row read earlier
Commit(c) ==
    /\ pc[c] = "read"
    /\ Store(WriteBlock(Ledger, row[c], args[c].result, args[c].stake_units,
                        args[c].profit_units))
    /\ last' = UpdateOp(args[c].result, args[c].stake_units, args[c].profit_units,
                        row[c].current + Change(args[c].result, args[c].stake_units,
                                                args[c].profit_units))
    /\ pc' = [pc EXCEPT ![c] = "idle"]
    /\ args' = [args EXCEPT ![c] = NoArgs]
    /\ row' = [row EXCEPT ![c] = NoRow]
    /\ UNCHANGED <<ncalls, pipeVars>>

NextConc ==
    \/ \E c \in Callers, result \in Results, s \in Stakes, p \in Profits :
          Begin(c, result, s, p)
    \/ \E c \in Callers : ReadRow(c)
    \/ \E c \in Callers : Commit(c)

SpecConc == Init /\ [][NextConc]_vars

\* ------------------------------------------- process_bet and process_game
\* process_bet consulting the Risk Guard before the EV <= 0 test
ProcessBetGuardBeforeEv(st, game_id, probability, odds, month, day) ==
    LET ev_res == CalculateEv(probability, odds)
        risk == ValidateBet(st, DefaultFilter, probability, ev_res.ev, month, day)
        Returns(d) == [done |-> TRUE, guarded |-> FALSE, decision |-> d,
                       ev_result |-> NoEv, risk_decision |-> NoRisk]
    IN IF ~(FracLe(FracZero, probability) /\ FracLe(probability, FracOne))
       THEN Returns(PassDecision(game_id, "INVALID_PROBABILITY", NoEv, NoRisk, NoStake))
       ELSE IF FracLe(odds, FracOne)
       THEN Returns(PassDecision(game_id, "INVALID_ODDS", NoEv, NoRisk, NoStake))
       ELSE IF ev_res.error
       THEN Returns(PassDecision(game_id, "EV_ERROR", NoEv, NoRisk, NoStake))
       ELSE IF ~risk.allowed
       THEN [done |-> TRUE, guarded |-> TRUE,
             decision |-> BlockDecision(game_id, risk.reasons, ev_res, risk),
             ev_result |-> ev_res, risk_decision |-> risk]
       ELSE IF FracLe(ev_res.ev, FracZero)
       THEN Returns(PassDecision(game_id, "NEGATIVE_VALUE", ev_res, NoRisk, NoStake))
       ELSE [done |-> FALSE, guarded |-> TRUE, decision |-> NoDecision,
             ev_result |-> ev_res, risk_decision |-> risk]

\* variant: no range checks and no handler around calculate_ev, so that its
\* ValueError leaves process_bet
ProcessBetGuardNoInputGate(st, game_id, probability, odds, month, day) ==
    LET ev_res == CalculateEv(probability, odds)
        risk == ValidateBet(st, DefaultFilter, probability, ev_res.ev, month, day)
        Returns(d) == [done |-> TRUE, guarded |-> FALSE, decision |-> d,
                       ev_result |-> NoEv, risk_decision |-> NoRisk]
    IN IF ev_res.error
       THEN Returns(BetDecision(game_id, "RAISED", FracZero, <<"ValueError">>,
                                NoEv, NoRisk, NoStake))
       ELSE IF FracLe(ev_res.ev, FracZero)
       THEN Returns(PassDecision(game_id, "NEGATIVE_VALUE", ev_res, NoRisk, NoStake))
       ELSE IF ~risk.allowed
       THEN [done |-> TRUE, guarded |-> TRUE,
             decision |-> BlockDecision(game_id, risk.reasons, ev_res, risk),
             ev_result |-> ev_res, risk_decision |-> risk]
       ELSE [done |-> FALSE, guarded |-> TRUE, decision |-> NoDecision,
             ev_result |-> ev_res, risk_decision |-> risk]

\* process_bet up to the Risk Guard: the range checks, the EV Engine, the
\* EV <= 0 test and validate_bet, which reads the bankroll status st.  done
\* tells a returned decision from a call that goes on to the stake.
ProcessBetGuard(st, game_id, probability, odds, month, day) ==
    LET ev_res == CalculateEv(probability, odds)
        risk == ValidateBet(st, DefaultFilter, probability, ev_res.ev, month, day)
        Returns(d) == [done |-> TRUE, guarded |-> FALSE, decision |-> d,
                       ev_result |-> NoEv, risk_decision |-> NoRisk]
    IN IF ~(FracLe(FracZero, probability) /\ FracLe(probability, FracOne))
       THEN Returns(PassDecision(game_id, "INVALID_PROBABILITY", NoEv, NoRisk, NoStake))
       ELSE IF FracLe(odds, FracOne)
       THEN Returns(PassDecision(game_id, "INVALID_ODDS", NoEv, NoRisk, NoStake))
       ELSE IF ev_res.error
       THEN Returns(PassDecision(game_id, "EV_ERROR", NoEv, NoRisk, NoStake))
       ELSE IF FracLe(ev_res.ev, FracZero)
       THEN Returns(PassDecision(game_id, "NEGATIVE_VALUE", ev_res, NoRisk, NoStake))
       ELSE IF ~risk.allowed
       THEN [done |-> TRUE, guarded |-> TRUE,
             decision |-> BlockDecision(game_id, risk.reasons, ev_res, risk),
             ev_result |-> ev_res, risk_decision |-> risk]
       ELSE [done |-> FALSE, guarded |-> TRUE, decision |-> NoDecision,
             ev_result |-> ev_res, risk_decision |-> risk]

\* variant: the stake is sized with the configured FRACTIONAL_KELLY, whatever
\* kelly_fraction the snapshot holds
ProcessBetStakeDefaultKelly(L, game_id, probability, odds, ev_res, risk) ==
    LET stake_res == CalculateStake(probability, odds, UnitsOf(L.current_units),
                                    Pct(KellyActive), Pct(MaxStakePct),
                                    risk.aggressiveness)
    IN IF L.status = "PAUSED"
       THEN BlockDecision(game_id, <<"CIRCUIT_BREAKER">>, ev_res, risk)
       ELSE IF FracLe(stake_res.recommended_stake, FracZero)
       THEN PassDecision(game_id, "ZERO_STAKE", ev_res, risk, stake_res)
       ELSE BetDecision(game_id, "BET", stake_res.recommended_stake,
                        <<"APPROVED">>, ev_res, risk, stake_res)

\* process_bet from get_state() on: the PAUSED test on the snapshot L, the
\* Stake Engine on the snapshot's balance and kelly_fraction, the final test
ProcessBetStake(L, game_id, probability, odds, ev_res, risk) ==
    LET stake_res == CalculateStake(probability, odds, UnitsOf(L.current_units),
                                    Pct(L.kelly_fraction), Pct(MaxStakePct),
                                    risk.aggressiveness)
    IN IF L.status = "PAUSED"
       THEN BlockDecision(game_id, <<"CIRCUIT_BREAKER">>, ev_res, risk)
       ELSE IF FracLe(stake_res.recommended_stake, FracZero)
       THEN PassDecision(game_id, "ZERO_STAKE", ev_res, risk, stake_res)
       ELSE BetDecision(game_id, "BET", stake_res.recommended_stake,
                        <<"APPROVED">>, ev_res, risk, stake_res)

\* process_bet run from its first line to its return on the ledger L
ProcessBet(L, game_id, probability, odds, month, day) ==
    LET g == ProcessBetGuard(L.status, game_id, probability, odds, month, day)
    IN IF g.done THEN g.decision
       ELSE ProcessBetStake(L, game_id, probability, odds, g.ev_result,
                            g.risk_decision)

\* the row _log_shadow_bet inserts for decision d
ShadowBet(d, prob, odds) ==
    [game_id |-> d.game_id, decision |-> d.decision, probability |-> prob,
     odds |-> odds,
     ev |-> IF d.has_ev THEN d.ev_result.ev ELSE FracZero,
     stake_units |-> d.stake_units,
     kelly_fraction |-> IF d.has_stake THEN d.stake_result.kelly_fraction
                        ELSE FracZero,
     status |-> "PENDING", reason |-> d.reason]

\* _log_shadow_bet recording only the decisions that are bets
LogShadowBetOnlyBets(table, d, prob, odds) ==
    IF d.decision = "BET" THEN Append(table, ShadowBet(d, prob, odds)) ELSE table

\* ShadowBettor._log_shadow_bet on the table
LogShadowBet(table, d, prob, odds) == Append(table, ShadowBet(d, prob, odds))

\* what the caller does with the decision: process_game logs it, a direct
\* process_bet call does not
Logged(via, d, prob, odds) ==
    IF via = "process_game" THEN LogShadowBet(shadow_bets, d, prob, odds)
    ELSE shadow_bets

\* a shadow table left by an earlier process_game("G0", 0.60, 1.00, ...)
PriorShadowBets ==
    LogShadowBet(<<>>, PassDecision("G0", "INVALID_ODDS", NoEv, NoRisk, NoStake),
                 Pct(60), Pct(100))

InitBet ==
    /\ current_units = Fresh.current_units
    /\ initial_units = Fresh.initial_units
    /\ peak_units = Fresh.peak_units
    /\ max_drawdown = Fresh.max_drawdown
    /\ status = Fresh.status
    /\ kelly_fraction = Fresh.kelly_fraction
    /\ transactions = Fresh.transactions
    /\ pc = [c \in Callers |-> "idle"]
    /\ args = [c \in Callers |-> NoArgs]
    /\ row = [c \in Callers |-> NoRow]
    /\ last = NoOp
    /\ ncalls = 0
    /\ call = NoCall
    /\ bet = NoBet
    /\ decision = NoDecision
    /\ shadow_bets \in {<<>>, PriorShadowBets}
    /\ nbets = 0
    /\ sim = NoSim

\* process_bet (directly or inside process_game) from its call to the return
\* of validate_bet; a decision reached by then is returned, and logged by
\* process_game
BetBegin(via, game_id, probability, odds, month, day) ==
    /\ bet.pc = "idle"
    /\ nbets < MaxBets
    /\ nbets' = nbets + 1
    /\ LET r == ProcessBetGuard(status, game_id, probability, odds, month, day)
           started == [pc |-> IF r.done THEN "idle" ELSE "guarded",
                       via |-> via, game_id |-> game_id,
                       probability |-> probability, odds |-> odds,
                       month |-> month, day |-> day,
                       guard_status |-> IF r.guarded THEN status ELSE "NONE",
                       snapshot |-> NoSnapshot,
                       ev_result |-> r.ev_result, risk_decision |-> r.risk_decision]
       IN /\ bet' = started
          /\ IF r.done
             THEN /\ decision' = r.decision
                  /\ shadow_bets' = Logged(via, r.decision, probability, odds)
             ELSE UNCHANGED <<decision, shadow_bets>>
    /\ UNCHANGED <<ledgerVars, callVars, last, ncalls, call, sim>>

\* the rest of process_bet, entering a BET in the transaction log
BetStakeWritesTransaction ==
    /\ bet.pc = "guarded"
    /\ LET d == ProcessBetStake(Ledger, bet.game_id, bet.probability, bet.odds,
                                bet.ev_result, bet.risk_decision)
       IN /\ decision' = d
          /\ shadow_bets' = Logged(bet.via, d, bet.probability, bet.odds)
          /\ transactions' = IF d.decision = "BET"
                             THEN Append(transactions,
                                         [type |-> "BET_PLACED", amount |-> 0,
                                          balance_after |-> current_units])
                             ELSE transactions
    /\ bet' = [bet EXCEPT !.pc = "idle",
                          !.snapshot = [status |-> status,
                                        current_units |-> current_units,
                                        kelly_fraction |-> kelly_fraction]]
    /\ UNCHANGED <<current_units, initial_units, peak_units, max_drawdown, status,
                   kelly_fraction, callVars, last, ncalls, call, nbets, sim>>

\* the rest of process_bet: get_state() and the stake; the decision is
\* returned, and logged by process_game
BetStake ==
    /\ bet.pc = "guarded"
    /\ LET d == ProcessBetStake(Ledger, bet.game_id, bet.probability, bet.odds,
                                bet.ev_result, bet.risk_decision)
       IN /\ decision' = d
          /\ shadow_bets' = Logged(bet.via, d, bet.probability, bet.odds)
    /\ bet' = [bet EXCEPT !.pc = "idle",
                          !.snapshot = [status |-> status,
                                        current_units |-> current_units,
                                        kelly_fraction |-> kelly_fraction]]
    /\ UNCHANGED <<ledgerVars, callVars, last, ncalls, call, nbets, sim>>

\* a result is settled on the ledger while decisions are being taken
Settle(result, stake_units, profit_units) ==
    /\ ncalls < MaxSettles
    /\ UpdateBankroll(result, stake_units, profit_units)

ManualReset(units) ==
    /\ ncalls < MaxSettles
    /\ Reset(units)

NextBet ==
    \/ \E via \in Vias, g \in GameIds, p \in BetProbabilities, o \in BetOdds,
          d \in BetDates : BetBegin(via, g, Pct(p), Pct(o), d[1], d[2])
    \/ BetStake
    \/ \E result \in Results, s \in SettleStakes, p \in SettleProfits :
          Settle(result, s, p)
    \/ \E u \in ResetUnits : ManualReset(u)

SpecBet == InitBet /\ [][NextBet]_vars

\* ------------------------------------------------------ the pure functions
\* RiskFilter(min_probability, min_ev, block_early_season, reduce_pre_deadline)
Filters == {[min_probability |-> Pct(mp), min_ev |-> Pct(me),
             block_early_season |-> b, reduce_pre_deadline |-> r] :
            mp \in FilterMinProbabilities, me \in FilterMinEvs,
            b \in BOOLEAN, r \in BOOLEAN}

EvCalls == {[fn |-> "calculate_ev",
             args |-> [probability |-> Pct(p), odds |-> Pct(o)],
             done |-> FALSE, out |-> NoEv] :
            p \in EvProbabilities, o \in EvOdds}

FilterCalls == {[fn |-> "validate",
                 args |-> [filter |-> f, probability |-> Pct(p), ev |-> Pct(e),
                           season_phase |-> ph],
                 done |-> FALSE, out |-> NoRisk] :
                f \in Filters, p \in FilterProbabilities, e \in FilterEvs,
                ph \in Phases \cup {"NONE"}}

StakeCalls == {[fn |-> "calculate_stake",
                args |-> [probability |-> Pct(p), odds |-> Pct(o), bankroll |-> b,
                          fractional_kelly |-> Pct(k), max_stake_percent |-> Pct(c),
                          aggressiveness |-> a],
                done |-> FALSE, out |-> NoStake] :
               p \in StakeProbabilities, o \in StakeOdds, b \in StakeBankrolls,
               k \in StakeKellys, c \in StakeCaps, a \in StakeAggressiveness}

GuardCalls == {[fn |-> "validate_bet",
                args |-> [filter |-> f, probability |-> Pct(p), ev |-> Pct(e),
                          month |-> d[1], day |-> d[2]],
                done |-> FALSE, out |-> NoRisk] :
               f \in Filters, p \in GuardProbabilities, e \in GuardEvs, d \in Dates}

BetCalls == {[fn |-> "process_bet",
              args |-> [game_id |-> g, probability |-> Pct(p), odds |-> Pct(o),
                        month |-> d[1], day |-> d[2]],
              done |-> FALSE, out |-> NoDecision] :
             g \in GameIds, p \in BetProbabilities, o \in BetOdds, d \in BetDates}

\* ledgers of each status for the guard to read: a fresh one, one after a loss
\* of 25 units (DEGRADED), one after a loss of 120 units (PAUSED)
GuardLedgers == {Fresh, Updated(Fresh, "LOSS", Units(25), 0),
                 Updated(Fresh, "LOSS", Units(120), 0)}

InitFn ==
    /\ \E L \in GuardLedgers :
          /\ current_units = L.current_units
          /\ initial_units = L.initial_units
          /\ peak_units = L.peak_units
          /\ max_drawdown = L.max_drawdown
          /\ status = L.status
          /\ kelly_fraction = L.kelly_fraction
          /\ transactions = L.transactions
    /\ pc = [c \in Callers |-> "idle"]
    /\ args = [c \in Callers |-> NoArgs]
    /\ row = [c \in Callers |-> NoRow]
    /\ last = NoOp
    /\ ncalls = 0
    /\ call \in EvCalls \cup FilterCalls \cup StakeCalls \cup GuardCalls \cup BetCalls
    /\ bet = NoBet
    /\ decision = NoDecision
    /\ shadow_bets = <<>>
    /\ nbets = 0
    /\ sim = NoSim

Return(out) ==
    /\ ~call.done
    /\ call' = [call EXCEPT !.done = TRUE, !.out = out]
    /\ UNCHANGED <<ledgerVars, callVars, last, ncalls, bet, decision, shadow_bets, nbets,
                   sim>>

ApplyCalculateEv ==
    /\ call.fn = "calculate_ev"
    /\ Return(CalculateEv(call.args.probability, call.args.odds))

ApplyValidate ==
    /\ call.fn = "validate"
    /\ Return(RiskFilterValidate(call.args.filter, call.args.probability,
                                 call.args.ev, call.args.season_phase))

ApplyCalculateStake ==
    /\ call.fn = "calculate_stake"
    /\ Return(CalculateStake(call.args.probability, call.args.odds,
                             call.args.bankroll, call.args.fractional_kelly,
                             call.args.max_stake_percent, call.args.aggressiveness))

\* validate_bet reads bankroll_service.operational_status, the ledger's status
ApplyValidateBet ==
    /\ call.fn = "validate_bet"
    /\ Return(ValidateBet(status, call.args.filter, call.args.probability,
                          call.args.ev, call.args.month, call.args.day))

\* process_bet with no other call between its reads of the ledger
ApplyProcessBet ==
    /\ call.fn = "process_bet"
    /\ Return(ProcessBet(Ledger, call.args.game_id, call.args.probability,
                         call.args.odds, call.args.month, call.args.day))

NextFn ==
    \/ ApplyCalculateEv
    \/ ApplyValidate
    \/ ApplyCalculateStake
    \/ ApplyValidateBet
    \/ ApplyProcessBet

SpecFn == InitFn /\ [][NextFn]_vars

\* --------------------------------------------- Monte Carlo stress testing
\* row i (from 0) of a sampled season
PoolRow(sample, i) ==
    IF sample.first <= i /\ i < sample.first + sample.n
    THEN [prob_home |-> Pct(sample.prob_home), odds_home |-> Pct(sample.odds_home),
          outcome_home |-> sample.outcome_home, malformed |-> sample.malformed]
    ELSE [prob_home |-> Pct(50), odds_home |-> Pct(191), outcome_home |-> 0,
          malformed |-> FALSE]

\* the phase run_single_season derives from progress_pct = i / GAMES_PER_SEASON
ProgressPhase(i) ==
    LET progress_pct == Frac(i, GamesPerSeason)
    IN IF FracLt(progress_pct, Pct(25)) THEN "EARLY"
       ELSE IF FracLt(progress_pct, Pct(60)) THEN "MID"
       ELSE IF FracLt(progress_pct, Pct(75)) THEN "PRE_DEADLINE"
       ELSE "LATE"

\* np.clip(x, lo, hi)
Clip(x, lo, hi) == IF FracLt(x, lo) THEN lo ELSE IF FracLt(hi, x) THEN hi ELSE x

\* the parameters run_scenario hands to every season of a scenario
ScenarioParams(bias) == [fractional_kelly |-> Pct(25), prob_bias |-> Pct(bias),
                         min_ev |-> Pct(MinEvPct)]

\* the locals of run_single_season before its loop; fell_after records the
\* index of the first game after which the balance was below the threshold
SeasonLocals == [bankroll |-> FracOfInt(InitialBankroll),
                 peak_bankroll |-> FracOfInt(InitialBankroll),
                 max_drawdown |-> FracZero,
                 total_bets |-> 0,
                 fell_after |-> -1]

\* the body of the loop of run_single_season for row i, after the ruin test
PlayGame(loc, game, params, i) ==
    LET phase == ProgressPhase(i)
        p_seen == Clip(FracAdd(game.prob_home, params.prob_bias), Pct(1), Pct(99))
        ev_seen == FracSub(FracMul(p_seen, game.odds_home), FracOne)
        risk_filter == [DefaultFilter EXCEPT !.min_ev = params.min_ev]
        risk_decision == RiskFilterValidate(risk_filter, p_seen, ev_seen, phase)
        stake == CalculateStake(p_seen, game.odds_home, loc.bankroll,
                                params.fractional_kelly, Pct(MaxStakePct),
                                risk_decision.aggressiveness).recommended_stake
        bankroll == IF game.outcome_home = 1
                    THEN FracAdd(loc.bankroll,
                                 FracMul(stake, FracSub(game.odds_home, FracOne)))
                    ELSE FracSub(loc.bankroll, stake)
        peak_bankroll == IF FracGt(bankroll, loc.peak_bankroll) THEN bankroll
                         ELSE loc.peak_bankroll
        dd == FracDiv(FracSub(peak_bankroll, bankroll), peak_bankroll)
    IN IF risk_decision.allowed /\ FracGt(stake, FracZero)
       THEN [bankroll |-> bankroll,
             peak_bankroll |-> peak_bankroll,
             max_drawdown |-> IF FracGt(dd, loc.max_drawdown) THEN dd
                              ELSE loc.max_drawdown,
             total_bets |-> loc.total_bets + 1,
             fell_after |-> IF loc.fell_after < 0
                               /\ FracLt(bankroll, FracOfInt(RuinThreshold))
                            THEN i ELSE loc.fell_after]
       ELSE loc

\* the dictionary run_single_season returns; games is the number of rows it
\* evaluated and fell_after the history value of the locals
SeasonResult(loc, bankrupt, games) ==
    [final_roi |-> IF bankrupt THEN <<-1, 1>>
                   ELSE FracDiv(FracSub(loc.bankroll, FracOfInt(InitialBankroll)),
                                FracOfInt(InitialBankroll)),
     max_drawdown |-> IF bankrupt THEN FracOne ELSE loc.max_drawdown,
     bankrupt |-> bankrupt,
     total_bets |-> loc.total_bets,
     final_bankroll |-> loc.bankroll,
     games |-> games,
     fell_after |-> loc.fell_after]

\* a batch: main() of monte_carlo.py or of sensitivity_analysis.py over the
\* sampled seasons tasks
Batch(entry, tasks) ==
    [entry |-> entry, tasks |-> tasks, scenario |-> 1, season |-> 1,
     pc |-> "start", i |-> 0, loc |-> SeasonLocals, results |-> <<>>,
     summary |-> <<>>, failed |-> 0, state |-> "running"]

InitSim ==
    /\ current_units = Fresh.current_units
    /\ initial_units = Fresh.initial_units
    /\ peak_units = Fresh.peak_units
    /\ max_drawdown = Fresh.max_drawdown
    /\ status = Fresh.status
    /\ kelly_fraction = Fresh.kelly_fraction
    /\ transactions = Fresh.transactions
    /\ pc = [c \in Callers |-> "idle"]
    /\ args = [c \in Callers |-> NoArgs]
    /\ row = [c \in Callers |-> NoRow]
    /\ last = NoOp
    /\ ncalls = 0
    /\ call = NoCall
    /\ bet = NoBet
    /\ decision = NoDecision
    /\ shadow_bets = <<>>
    /\ nbets = 0
    /\ \E entry \in Entries, tasks \in [1..MaxSims -> Samples] :
          sim = Batch(entry, tasks)

SimStep(next) ==
    /\ sim' = next
    /\ UNCHANGED <<ledgerVars, callVars, last, ncalls, call, bet, decision,
                   shadow_bets, nbets>>

\* An exception raised in run_single_season comes out of
\* list(executor.map(...)), which neither main() nor run_scenario() guards:
\* the batch ends without results or aggregate.
Raised == [sim EXCEPT !.state = "aborted", !.failed = sim.season,
                      !.results = <<>>]

\* a season returns: its dictionary is the next element of results
SeasonReturned(result) ==
    [sim EXCEPT !.results = Append(@, result), !.season = @ + 1, !.pc = "start"]

\* run_single_season up to its loop.  main() of monte_carlo.py puts the bare
\* sample in tasks, so that "pool_sample, params = args" raises ValueError.
SeasonStart ==
    /\ sim.entry # "none" /\ sim.state = "running"
    /\ sim.pc = "start" /\ sim.season <= MaxSims
    /\ IF sim.entry = "monte_carlo"
       THEN SimStep(Raised)
       ELSE SimStep([sim EXCEPT !.pc = "loop", !.i = 0, !.loc = SeasonLocals])

\* one iteration of the loop: the ruin test, then the game
SeasonGame ==
    /\ sim.entry # "none" /\ sim.state = "running"
    /\ sim.pc = "loop" /\ sim.i < GamesPerSeason
    /\ LET game == PoolRow(sim.tasks[sim.season], sim.i)
           params == ScenarioParams(ScenarioBiases[sim.scenario])
       IN IF FracLt(sim.loc.bankroll, FracOfInt(RuinThreshold))
          THEN SimStep(SeasonReturned(SeasonResult(sim.loc, TRUE, sim.i)))
          ELSE IF game.malformed
          THEN SimStep(Raised)
          ELSE SimStep([sim EXCEPT !.loc = PlayGame(sim.loc, game, params, sim.i),
                                   !.i = @ + 1])

\* the loop is exhausted: the end-of-season return
SeasonEnd ==
    /\ sim.entry # "none" /\ sim.state = "running"
    /\ sim.pc = "loop" /\ sim.i = GamesPerSeason
    /\ SimStep(SeasonReturned(SeasonResult(sim.loc, FALSE, sim.i)))

\* run_scenario after list(executor.map(...)): ruin_prob = df['bankrupt'].mean()
\* is kept for the summary, and main() goes on to the next scenario
Aggregate ==
    /\ sim.entry # "none" /\ sim.state = "running"
    /\ sim.pc = "start" /\ sim.season > MaxSims
    /\ LET ruined == Cardinality({k \in 1..Len(sim.results) : sim.results[k].bankrupt})
           entry == [prob_bias |-> ScenarioBiases[sim.scenario], ruined |-> ruined,
                     seasons |-> Len(sim.results), results |-> sim.results]
       IN SimStep([sim EXCEPT !.summary = Append(@, entry),
                              !.results = <<>>,
                              !.season = 1,
                              !.scenario = IF @ < Len(ScenarioBiases) THEN @ + 1 ELSE @,
                              !.state = IF sim.scenario < Len(ScenarioBiases)
                                        THEN "running" ELSE "done"])

NextSim ==
    \/ SeasonStart
    \/ SeasonGame
    \/ SeasonEnd
    \/ Aggregate

SpecSim == InitSim /\ [][NextSim]_vars

\* ====================================================================
\* Properties
\* ====================================================================

\* a step that is one whole update_bankroll call (specification Spec)
IsUpdateCall == last'.op = "update" /\ ncalls' = ncalls + 1

\* a step that is one reset (specification Spec)
IsReset == last'.op = "reset" /\ ncalls' = ncalls + 1

\* the delta the specification gives for the call that just finished
SpecDelta(op) ==
    CASE op.result = "WIN" -> op.profit_units
      [] op.result = "LOSS" -> 0 - op.stake_units
      [] op.result = "PUSH" -> 0

\* the transaction type the specification gives for a result
SpecType(op) ==
    CASE op.result = "WIN" -> "BET_WIN"
      [] op.result = "LOSS" -> "BET_LOSS"
      [] op.result = "PUSH" -> "ADJUSTMENT"

\* number of BET_LOSS transactions recorded after the last BET_WIN
LossStreak(txs) ==
    LET wins == {i \in 1..Len(txs) : txs[i].type = "BET_WIN"}
        lastWin == IF wins = {} THEN 0
                   ELSE CHOOSE i \in wins : \A j \in wins : j <= i
    IN Cardinality({i \in 1..Len(txs) : i > lastWin /\ txs[i].type = "BET_LOSS"})

\* (peak - current) / peak compared with pct / 100, for the ledger (pk, cur)
DrawdownAbove(pk, cur, pct) == pk > 0 /\ (pk - cur) * 100 > pct * pk
DrawdownBelow(pk, cur, pct) == pk <= 0 \/ (pk - cur) * 100 < pct * pk

PauseRule(pk, cur, txs) ==
    LossStreak(txs) >= 10 \/ DrawdownAbove(pk, cur, 40)

\* C1: once the status is PAUSED it stays PAUSED, and an update_bankroll call
\* made on a PAUSED ledger changes nothing in the ledger and returns the
\* unchanged current_units.
C1_PausedIsNoOp ==
    [][status = "PAUSED" =>
         /\ status' = "PAUSED"
         /\ IsUpdateCall =>
              /\ UNCHANGED ledgerVars
              /\ last'.ret = current_units]_vars

\* C1 witness: a WIN was submitted to a PAUSED ledger and was not recorded
C1_Witness ==
    /\ status = "PAUSED"
    /\ last.op = "update"
    /\ last.result = "WIN"
    /\ last.ret = current_units
    /\ transactions # <<>>
    /\ transactions[Len(transactions)].type = "BET_LOSS"

\* C2: after an update applied in ACTIVE or DEGRADED, a streak of 10 or more
\* losses or a drawdown above 0.40 means status PAUSED and kelly_fraction 0,
\* whatever the ACTIVE / DEGRADED rules would give.
C2_PauseRule ==
    [][(IsUpdateCall /\ status \in {"ACTIVE", "DEGRADED"}
        /\ PauseRule(peak_units', current_units', transactions'))
       => (status' = "PAUSED" /\ kelly_fraction' = 0)]_vars

\* C2 witness: the first call on an ACTIVE ledger pauses it on drawdown alone
C2_Witness ==
    /\ ncalls = 1
    /\ last.op = "update"
    /\ status = "PAUSED"
    /\ kelly_fraction = 0
    /\ LossStreak(transactions) < 10
    /\ DrawdownAbove(peak_units, current_units, 40)

C4_Hysteresis ==
    [][IsUpdateCall =>
         /\ (status = "DEGRADED"
             /\ DrawdownBelow(peak_units', current_units', 15))
            => (status' = "ACTIVE" /\ kelly_fraction' = 25)
         /\ (status = "DEGRADED"
             /\ ~DrawdownBelow(peak_units', current_units', 15)
             /\ ~DrawdownAbove(peak_units', current_units', 40)
             /\ LossStreak(transactions') < 10)
            => (status' = "DEGRADED" /\ kelly_fraction' = 10)
         /\ (status \in {"ACTIVE", "DEGRADED"}
             /\ ~DrawdownBelow(peak_units', current_units', 15)
             /\ ~DrawdownAbove(peak_units', current_units', 20)
             /\ LossStreak(transactions') < 10)
            => status' = status]_vars

\* C4 witness: LOSS(25) then WIN(15) brings the ledger back to ACTIVE at 90
C4_Witness ==
    /\ Len(transactions) = 2
    /\ transactions[1] = [type |-> "BET_LOSS", amount |-> Units(-25),
                          balance_after |-> Units(75)]
    /\ transactions[2] = [type |-> "BET_WIN", amount |-> Units(15),
                          balance_after |-> Units(90)]
    /\ status = "ACTIVE"
    /\ kelly_fraction = 25

\* sum of the amounts of the bet and adjustment transactions
RECURSIVE SumAmounts(_)
SumAmounts(txs) ==
    IF txs = <<>> THEN 0
    ELSE (IF txs[1].type = "RESET" THEN 0 ELSE txs[1].amount) + SumAmounts(Tail(txs))

\* C5: concurrent update_bankroll calls are serialised: once every call has
\* returned, current_units is the starting balance plus the delta of every
\* transaction recorded, so no update is lost.
C5_NoLostUpdate ==
    AllIdle => current_units = initial_units + SumAmounts(transactions)

\* C6 as stated: every update_bankroll call appends exactly one transaction.
C6_EveryCallAppends ==
    [][IsUpdateCall => Len(transactions') = Len(transactions) + 1]_vars

\* C6 (amended): a call on a ledger that is not PAUSED appends exactly one
\* transaction, of the type of its result, whose amount is the signed delta
\* and whose balance_after is the new current_units, and leaves the earlier
\* transactions as they were; a call on a PAUSED ledger appends nothing.
C6_AppendOne ==
    [][IsUpdateCall =>
         IF status = "PAUSED"
         THEN transactions' = transactions
         ELSE /\ Len(transactions') = Len(transactions) + 1
              /\ SubSeq(transactions', 1, Len(transactions)) = transactions
              /\ transactions'[Len(transactions')] =
                    [type |-> SpecType(last'), amount |-> SpecDelta(last'),
                     balance_after |-> current_units']]_vars

\* C6 witness: a PUSH recorded as an ADJUSTMENT of 0 behind an earlier row
C6_Witness ==
    /\ last.op = "update"
    /\ last.result = "PUSH"
    /\ Len(transactions) >= 2
    /\ transactions[Len(transactions)] =
          [type |-> "ADJUSTMENT", amount |-> 0, balance_after |-> current_units]

\* C7 as stated: current_units is never negative.
C7_NeverNegative == current_units >= 0

\* C7 (amended): a call on a non-negative balance whose LOSS stake is at most
\* that balance leaves current_units non-negative; a LOSS on a ledger that is
\* not PAUSED whose stake exceeds the balance stores the negative balance.
C7_NonNegativeUnlessOverstaked ==
    [][IsUpdateCall =>
         /\ (current_units >= 0
             /\ (last'.result = "LOSS" => last'.stake_units <= current_units))
            => current_units' >= 0
         /\ (status # "PAUSED" /\ last'.result = "LOSS"
             /\ last'.stake_units > current_units /\ current_units >= 0)
            => (current_units' = current_units - last'.stake_units
                /\ current_units' < 0)]_vars

\* C7 witness: a LOSS whose stake is the whole balance leaves exactly 0
C7_Witness ==
    /\ last.op = "update"
    /\ last.result = "LOSS"
    /\ current_units = 0
    /\ transactions # <<>>
    /\ transactions[Len(transactions)].type = "BET_LOSS"

\* every balance the ledger has had since it was created or reset
Balances ==
    <<initial_units>> \o [i \in 1..Len(transactions) |-> transactions[i].balance_after]

PeakAt(i) ==
    CHOOSE m \in {Balances[j] : j \in 1..i} : \A j \in 1..i : Balances[j] <= m

DdNum(i) == IF PeakAt(i) > 0 THEN PeakAt(i) - Balances[i] ELSE 0
DdDen(i) == IF PeakAt(i) > 0 THEN PeakAt(i) ELSE 1

\* C8: peak_units is the largest balance the ledger has had and max_drawdown
\* the largest drawdown it has had, and no update_bankroll call lowers either.
C8_RunningMaxima ==
    /\ [](/\ peak_units = PeakAt(Len(Balances))
          /\ \A i \in 1..Len(Balances) :
                DdNum(i) * max_drawdown[2] <= max_drawdown[1] * DdDen(i)
          /\ \E i \in 1..Len(Balances) :
                DdNum(i) * max_drawdown[2] = max_drawdown[1] * DdDen(i))
    /\ [][IsUpdateCall =>
            /\ peak_units' >= peak_units
            /\ max_drawdown'[1] * max_drawdown[2]
                  >= max_drawdown[1] * max_drawdown'[2]]_vars

\* C8 witness: the balance has recovered, so max_drawdown is above the current
\* drawdown and the peak is above both the starting and the current balance
C8_Witness ==
    /\ last.op = "update"
    /\ peak_units > initial_units
    /\ peak_units > current_units
    /\ max_drawdown[1] * peak_units > (peak_units - current_units) * max_drawdown[2]

\* C9: on a ledger that is not PAUSED with balance C, LOSS stores and returns
\* C - stake, WIN stores and returns C + profit, PUSH stores and returns C.
C9_NewBalance ==
    [][(IsUpdateCall /\ status # "PAUSED")
       => /\ current_units' = current_units + SpecDelta(last')
          /\ last'.ret = current_units']_vars

\* C9 witness: a WIN with stake 120 and profit 15 on 100 units gives 115
C9_Witness ==
    /\ last = UpdateOp("WIN", Units(120), Units(15), Units(115))
    /\ current_units = Units(115)
    /\ transactions = <<[type |-> "BET_WIN", amount |-> Units(15),
                         balance_after |-> Units(115)]>>

\* C10: reset(units) sets current_units, initial_units and peak_units to units
\* and max_drawdown to 0, removes every earlier transaction, and makes the
\* ledger ACTIVE with kelly_fraction 0.25.
C10_ResetRestoresActive ==
    [][IsReset =>
         /\ current_units' = last'.units
         /\ initial_units' = last'.units
         /\ peak_units' = last'.units
         /\ max_drawdown'[1] = 0
         /\ \A i \in 1..Len(transactions') : transactions'[i].type = "RESET"
         /\ status' = "ACTIVE"
         /\ kelly_fraction' = 25]_vars


\* ====================================================================
\* EV Engine, Risk Filter, Stake Engine, Risk Guard
\* ====================================================================
\* a finished call of fn
Returned(fn) == call.fn = fn /\ call.done

\* C18: calculate_ev(probability, odds) returns ev = probability * odds - 1 and
\* is_value_bet = (ev > 0, strictly) for every probability in [0, 1] and odds
\* above 1.0; for a probability outside [0, 1] or odds <= 1.0 it fails with a
\* validation error and returns no result.
C18_CalculateEv ==
    Returned("calculate_ev") =>
        LET p == call.args.probability
            o == call.args.odds
            ev == call.out.ev
            valid == 0 <= p[1] /\ p[1] <= p[2] /\ o[1] > o[2]
        IN IF valid
           THEN /\ ~call.out.error
                /\ ev[1] * p[2] * o[2] = (p[1] * o[1] - p[2] * o[2]) * ev[2]
                /\ call.out.is_value_bet = (p[1] * o[1] > p[2] * o[2])
           ELSE call.out.error

\* C18 witness: probability 0.50 at odds 2.00 gives ev = 0, not a value bet
C18_Witness ==
    /\ Returned("calculate_ev")
    /\ call.args = [probability |-> <<1, 2>>, odds |-> <<2, 1>>]
    /\ call.out = [error |-> FALSE, ev |-> FracZero, is_value_bet |-> FALSE]


\* probability p (a fraction) lies in the dead zone [0.50, 0.55)
InDeadZone(p) == 50 * p[2] <= 100 * p[1] /\ 100 * p[1] < 55 * p[2]

\* C14: RiskFilter.validate blocks (allowed = false, aggressiveness = 0) every
\* probability in [0.50, 0.55), whatever the EV, the season phase and the
\* filter's min_probability and min_ev, and the dead-zone reason comes first
\* in the returned reasons.
C14_DeadZoneBlocks ==
    (Returned("validate") /\ InDeadZone(call.args.probability)) =>
        /\ ~call.out.allowed
        /\ call.out.aggressiveness[1] = 0
        /\ Len(call.out.reasons) >= 1
        /\ call.out.reasons[1] = "DEAD_ZONE"

\* C14 witness: probability 0.52 with EV 3.00 in LATE phase, under a filter
\* with min_probability 0.40, min_ev -0.10 and both season flags off, is
\* blocked by the dead zone alone
C14_Witness ==
    /\ Returned("validate")
    /\ call.args = [filter |-> [min_probability |-> <<2, 5>>, min_ev |-> <<-1, 10>>,
                                block_early_season |-> FALSE,
                                reduce_pre_deadline |-> FALSE],
                    probability |-> <<13, 25>>, ev |-> <<3, 1>>,
                    season_phase |-> "LATE"]
    /\ call.out = [allowed |-> FALSE, reasons |-> <<"DEAD_ZONE">>,
                   aggressiveness |-> FracZero]

\* number of TRUE entries of a tuple of booleans
RECURSIVE CountTrue(_)
CountTrue(bs) == IF bs = <<>> THEN 0
                 ELSE (IF Head(bs) THEN 1 ELSE 0) + CountTrue(Tail(bs))

\* the rules of section 4.2 for a finished validate call, the season rules
\* taken as in force when early_on / pre_on
FilterRulesHold(early_on, pre_on) ==
    LET p == call.args.probability
        e == call.args.ev
        f == call.args.filter
        ph == call.args.season_phase
        dead == InDeadZone(p)
        lowp == p[1] * f.min_probability[2] < f.min_probability[1] * p[2]
        lowev == e[1] * f.min_ev[2] < f.min_ev[1] * e[2]
        nonpos == e[1] <= 0
        early == ph = "EARLY" /\ early_on
        pre == ph = "PRE_DEADLINE" /\ pre_on
        blocked == dead \/ lowp \/ lowev \/ nonpos \/ early
        out == call.out
    IN /\ out.allowed = ~blocked
       /\ Len(out.reasons) = CountTrue(<<dead, lowp, lowev, nonpos, early, pre>>)
       /\ dead = (\E i \in 1..Len(out.reasons) : out.reasons[i] = "DEAD_ZONE")
       /\ lowp = (\E i \in 1..Len(out.reasons) : out.reasons[i] = "MIN_PROBABILITY")
       /\ lowev = (\E i \in 1..Len(out.reasons) : out.reasons[i] = "MIN_EV")
       /\ nonpos = (\E i \in 1..Len(out.reasons) : out.reasons[i] = "NON_POSITIVE_EV")
       /\ early = (\E i \in 1..Len(out.reasons) : out.reasons[i] = "EARLY_SEASON")
       /\ pre = (\E i \in 1..Len(out.reasons) : out.reasons[i] = "PRE_DEADLINE_WARNING")
       /\ out.aggressiveness = IF blocked THEN <<0, 1>>
                               ELSE IF pre THEN <<1, 2>> ELSE <<1, 1>>

\* C15 as stated: allowed exactly when none of dead zone, probability <
\* min_probability, ev < min_ev, ev <= 0 and EARLY phase fires; one reason per
\* fired rule plus the warning in PRE_DEADLINE; aggressiveness 0 when blocked,
\* 0.5 when allowed in PRE_DEADLINE, 1.0 when allowed otherwise -- for every
\* filter.
C15_Accumulates == Returned("validate") => FilterRulesHold(TRUE, TRUE)

\* C15, amended: the same, with the EARLY rule in force only under
\* block_early_season and the PRE_DEADLINE warning and 0.5 only under
\* reduce_pre_deadline.
C15_AccumulatesUnderFlags ==
    Returned("validate") =>
        FilterRulesHold(call.args.filter.block_early_season,
                        call.args.filter.reduce_pre_deadline)

\* C15 witness: probability 0.52 with EV 0 in EARLY phase under the default
\* filter fires five rules at once
C15_Witness ==
    /\ Returned("validate")
    /\ call.args.filter = DefaultFilter
    /\ call.args.probability = <<13, 25>>
    /\ call.args.ev = FracZero
    /\ call.args.season_phase = "EARLY"
    /\ call.out = [allowed |-> FALSE,
                   reasons |-> <<"DEAD_ZONE", "MIN_PROBABILITY", "MIN_EV",
                                 "EARLY_SEASON", "NON_POSITIVE_EV">>,
                   aggressiveness |-> FracZero]


\* C16: for every probability, odds, bankroll, fractional_kelly,
\* max_stake_percent and aggressiveness, the recommended_stake returned by
\* calculate_stake is at most bankroll * max_stake_percent.
C16_StakeWithinCap ==
    Returned("calculate_stake") =>
        LET r == call.out.recommended_stake
            b == call.args.bankroll
            m == call.args.max_stake_percent
        IN r[1] * b[2] * m[2] <= b[1] * m[1] * r[2]

\* (p * odds - 1) / (odds - 1) for odds other than 1.0
KellyFormula(p, o) ==
    LET n == FracSub(FracMul(p, o), FracOne)
        d == FracSub(o, FracOne)
    IN IF d[1] > 0 THEN FracDiv(n, d) ELSE FracDiv(<<-n[1], n[2]>>, <<-d[1], d[2]>>)

\* the reference of C17 for odds other than 1.0 (where its f* is undefined)
StakeReference(p, o, b, fk, m, a) ==
    LET f == KellyFormula(p, o)
        raw == FracMul(FracMul(FracMul(b, f), fk), a)
        ceiling == FracMul(b, m)
        capped == FracGt(raw, ceiling)
        s == IF capped THEN ceiling ELSE raw
        zeroed == FracLt(s, <<1, 100>>)
    IN IF FracLe(f, FracZero)
       THEN [kelly_fraction |-> f, stake |-> FracZero,
             was_capped |-> FALSE, was_zeroed |-> TRUE]
       ELSE [kelly_fraction |-> f, stake |-> IF zeroed THEN FracZero ELSE s,
             was_capped |-> capped, was_zeroed |-> zeroed]

\* r is s rounded to 4 decimal places: a multiple of 0.0001 at most 0.00005 away
RoundedTo4(r, s) ==
    /\ 10000 % r[2] = 0
    /\ 2 * Abs(r[1] * (10000 \div r[2]) * s[2] - 10000 * s[1]) <= s[2]

\* C17 as stated: calculate_stake returns the reference stake, was_capped,
\* was_zeroed and the raw f* = (p * odds - 1) / (odds - 1), for every input.
C17_MatchesReference ==
    Returned("calculate_stake") =>
        /\ call.args.odds # FracOne
        /\ LET ref == StakeReference(call.args.probability, call.args.odds,
                                     call.args.bankroll, call.args.fractional_kelly,
                                     call.args.max_stake_percent,
                                     call.args.aggressiveness)
           IN call.out = [kelly_fraction |-> ref.kelly_fraction,
                          recommended_stake |-> ref.stake,
                          was_capped |-> ref.was_capped,
                          was_zeroed |-> ref.was_zeroed]

\* C17, amended: for odds above 1.0 the flags and kelly_fraction are those of
\* the reference and recommended_stake is the reference stake rounded to 4
\* decimal places; for odds <= 1.0 kelly_fraction is 0 and the stake is 0 with
\* was_zeroed and without was_capped.
C17_MatchesReferenceRounded ==
    Returned("calculate_stake") =>
        IF FracLe(call.args.odds, FracOne)
        THEN call.out = [kelly_fraction |-> FracZero, recommended_stake |-> FracZero,
                         was_capped |-> FALSE, was_zeroed |-> TRUE]
        ELSE LET ref == StakeReference(call.args.probability, call.args.odds,
                                       call.args.bankroll, call.args.fractional_kelly,
                                       call.args.max_stake_percent,
                                       call.args.aggressiveness)
             IN /\ call.out.kelly_fraction = ref.kelly_fraction
                /\ call.out.was_capped = ref.was_capped
                /\ call.out.was_zeroed = ref.was_zeroed
                /\ RoundedTo4(call.out.recommended_stake, ref.stake)

\* C17 witness: probability 0.80 at odds 2.00 on a bankroll of 1.0015 with
\* fractional_kelly 0.25 and a 5% cap: f* = 0.6, the stake 0.150225 is capped
\* to 0.050075 and returned as 0.0501
C17_Witness ==
    /\ Returned("calculate_stake")
    /\ call.args = [probability |-> <<4, 5>>, odds |-> <<2, 1>>,
                    bankroll |-> <<2003, 2000>>, fractional_kelly |-> <<1, 4>>,
                    max_stake_percent |-> <<1, 20>>, aggressiveness |-> <<1, 1>>]
    /\ call.out = [kelly_fraction |-> <<3, 5>>, recommended_stake |-> <<501, 10000>>,
                   was_capped |-> TRUE, was_zeroed |-> FALSE]


\* a date in October, November or December 1-24
EarlyDate(month, day) == month \in {10, 11} \/ (month = 12 /\ day <= 24)

\* the calendar mapping of section 4.4
CalendarPhase(month, day) ==
    CASE month \in {10, 11} -> "EARLY"
      [] month = 12 /\ day < 25 -> "EARLY"
      [] month = 12 /\ day >= 25 -> "MID"
      [] month = 1 -> "MID"
      [] month = 2 -> "PRE_DEADLINE"
      [] month \in {3, 4} -> "LATE"
      [] OTHER -> "MID"

\* C12: RiskGuard.validate_bet blocks (allowed = false, aggressiveness = 0)
\* every bet dated in October, November or December 1-24, for every
\* probability, EV and bankroll status, also when its Risk Filter was built
\* with block_early_season = False.
C12_EarlySeasonBlocked ==
    (Returned("validate_bet") /\ EarlyDate(call.args.month, call.args.day)) =>
        /\ ~call.out.allowed
        /\ call.out.aggressiveness[1] = 0

\* C12 witness: on an ACTIVE ledger, probability 0.60 with EV 0.20 dated
\* December 24, under a filter with block_early_season off, is blocked by the
\* hard rule
C12_Witness ==
    /\ Returned("validate_bet")
    /\ status = "ACTIVE"
    /\ call.args = [filter |-> [DefaultFilter EXCEPT !.block_early_season = FALSE],
                    probability |-> <<3, 5>>, ev |-> <<1, 5>>,
                    month |-> 12, day |-> 24]
    /\ call.out = [allowed |-> FALSE, reasons |-> <<"HARD_RULE_EARLY_SEASON">>,
                   aggressiveness |-> FracZero]

\* C13: validate_bet applies its gates in strict order: a PAUSED bankroll
\* gives allowed = false with the circuit-breaker reason as the only reason,
\* whatever the date, probability and EV; only when it is not PAUSED is an
\* EARLY date blocked by the hard rule; only when neither applies is the Risk
\* Filter consulted, with the phase computed from the date.
C13_GateOrder ==
    Returned("validate_bet") =>
        IF status = "PAUSED"
        THEN call.out = [allowed |-> FALSE, reasons |-> <<"CIRCUIT_BREAKER">>,
                         aggressiveness |-> FracZero]
        ELSE IF EarlyDate(call.args.month, call.args.day)
        THEN call.out = [allowed |-> FALSE, reasons |-> <<"HARD_RULE_EARLY_SEASON">>,
                         aggressiveness |-> FracZero]
        ELSE LET r == RiskFilterValidate(call.args.filter, call.args.probability,
                                         call.args.ev,
                                         CalendarPhase(call.args.month, call.args.day))
             IN /\ call.out.allowed = r.allowed
                /\ call.out.aggressiveness = r.aggressiveness
                /\ Len(call.out.reasons) >= Len(r.reasons)
                /\ SubSeq(call.out.reasons, 1, Len(r.reasons)) = r.reasons

\* C13 witness: on a PAUSED ledger a bet dated October 15 with probability
\* 0.52 and EV -0.05 gets the circuit-breaker reason alone
C13_Witness ==
    /\ Returned("validate_bet")
    /\ status = "PAUSED"
    /\ call.args = [filter |-> DefaultFilter, probability |-> <<13, 25>>,
                    ev |-> <<-1, 20>>, month |-> 10, day |-> 15]
    /\ call.out.reasons = <<"CIRCUIT_BREAKER">>


\* ====================================================================
\* Bet Pipeline and Shadow Bettor
\* ====================================================================
\* process_bet has returned: bet holds the call's arguments and what it read,
\* decision what it returned
BetReturned == bet.pc = "idle" /\ bet.via # "none"

\* BetDecision d is kind with this stake and these reasons
Decided(kind, stake, reasons) ==
    /\ decision.decision = kind
    /\ decision.stake_units = stake
    /\ decision.reason = reasons

\* C11: process_bet short-circuits in this order: a probability outside
\* [0, 1] or odds <= 1.0 gives PASS; otherwise EV <= 0 gives PASS (also on a
\* PAUSED bankroll or an EARLY date, the guard not being consulted); otherwise
\* a guard decision with allowed = false gives BLOCKED with all the guard's
\* reasons; otherwise a PAUSED snapshot gives BLOCKED; otherwise a recommended
\* stake <= 0 gives PASS; otherwise BET with stake_units = the recommended
\* stake.
C11_Precedence ==
    BetReturned =>
        LET p == bet.probability
            o == bet.odds
            ev == FracSub(FracMul(p, o), FracOne)
            guard == ValidateBet(bet.guard_status, DefaultFilter, p, ev,
                                 bet.month, bet.day)
            stake == CalculateStake(p, o, UnitsOf(bet.snapshot.current_units),
                                    Pct(bet.snapshot.kelly_fraction),
                                    Pct(MaxStakePct), guard.aggressiveness)
        IN IF p[1] < 0 \/ p[1] > p[2]
           THEN Decided("PASS", FracZero, <<"INVALID_PROBABILITY">>)
           ELSE IF o[1] <= o[2]
           THEN Decided("PASS", FracZero, <<"INVALID_ODDS">>)
           ELSE IF ev[1] <= 0
           THEN /\ Decided("PASS", FracZero, <<"NEGATIVE_VALUE">>)
                /\ bet.guard_status = "NONE"
           ELSE IF ~guard.allowed
           THEN /\ Decided("BLOCKED", FracZero, guard.reasons)
                /\ bet.snapshot = NoSnapshot
           ELSE IF bet.snapshot.status = "PAUSED"
           THEN Decided("BLOCKED", FracZero, <<"CIRCUIT_BREAKER">>)
           ELSE IF stake.recommended_stake[1] <= 0
           THEN Decided("PASS", FracZero, <<"ZERO_STAKE">>)
           ELSE Decided("BET", stake.recommended_stake, <<"APPROVED">>)

\* C11 witness: the guard read an ACTIVE bankroll and allowed the bet, a loss
\* then PAUSED the ledger, and the snapshot test returned BLOCKED
C11_Witness ==
    /\ BetReturned
    /\ bet.guard_status = "ACTIVE"
    /\ bet.risk_decision.allowed
    /\ bet.snapshot.status = "PAUSED"
    /\ Decided("BLOCKED", FracZero, <<"CIRCUIT_BREAKER">>)


\* a step of process_bet: its call, or its return
IsBetStep == nbets' # nbets \/ bet' # bet

\* C19: process_bet is read-only: whatever the input and the outcome, it
\* leaves current_units, the peak, max_drawdown, status, kelly_fraction and
\* the transaction log as they were; only update_bankroll (and reset), called
\* separately, change them.
C19_ReadOnly ==
    [][IsBetStep =>
         /\ current_units' = current_units
         /\ initial_units' = initial_units
         /\ peak_units' = peak_units
         /\ max_drawdown' = max_drawdown
         /\ status' = status
         /\ kelly_fraction' = kelly_fraction
         /\ transactions' = transactions]_vars

\* C19 witness: process_bet has returned BET and the ledger is still the
\* fresh one
C19_Witness ==
    /\ BetReturned
    /\ decision.decision = "BET"
    /\ decision.stake_units[1] > 0
    /\ Ledger = Fresh

KellyOf(st) ==
    IF st = "ACTIVE" THEN KellyActive
    ELSE IF st = "DEGRADED" THEN KellyDegraded
    ELSE KellyPaused

\* C23: in every reachable ledger state kelly_fraction is the one of the
\* status (ACTIVE 0.25, DEGRADED 0.10, PAUSED 0); a ledger without any
\* transaction that was never reset is the created one (ACTIVE, 0.25,
\* current_units = initial_units = 100); and kelly_fraction changes only in
\* an update_bankroll call that also changes the status.
C23_KellyByStatus ==
    /\ [](/\ status \in {"ACTIVE", "DEGRADED", "PAUSED"}
          /\ kelly_fraction = KellyOf(status)
          /\ (ncalls = 0 /\ transactions = <<>>) =>
                 /\ status = "ACTIVE" /\ kelly_fraction = 25
                 /\ current_units = Units(100) /\ initial_units = Units(100))
    /\ [][kelly_fraction' # kelly_fraction =>
             IsUpdateCall /\ status' # status]_vars

\* a DEGRADED ledger was reached by an update_bankroll call from ACTIVE
C23_Witness ==
    /\ last.op = "update" /\ status = "DEGRADED" /\ kelly_fraction = 10
    /\ Len(transactions) > 0


\* ----------------------------------------------------------------- C29
\* C29: the loss streak is counted over BET_WIN and BET_LOSS rows only.  An
\* update_bankroll call on a ledger that is not PAUSED leaves the streak as
\* it was for a PUSH, adds one for a LOSS and sets it to 0 for a WIN, and a
\* streak of 10, with or without PUSH results in between, leaves the
\* ledger PAUSED.
C29_StreakOverBets ==
    [][(IsUpdateCall /\ status # "PAUSED") =>
         /\ (last'.result = "PUSH" =>
                 LossStreak(transactions') = LossStreak(transactions))
         /\ (last'.result = "LOSS" =>
                 LossStreak(transactions') = LossStreak(transactions) + 1)
         /\ (last'.result = "WIN" => LossStreak(transactions') = 0)
         /\ (LossStreak(transactions') >= 10 => status' = "PAUSED")]_vars

\* the tenth LOSS arrived after a PUSH and paused a ledger whose drawdown
\* is far below the pause threshold
C29_Witness ==
    /\ status = "PAUSED" /\ last.op = "update" /\ last.result = "LOSS"
    /\ Len(transactions) = 11 /\ current_units = Units(90)
    /\ transactions[10].type = "ADJUSTMENT"
    /\ LossStreak(transactions) = 10


\* ----------------------------------------------------------------- C28
\* C28: the circuit breaker holds under concurrent callers: once PAUSED has
\* been committed, no update_bankroll call, also one that read a status
\* other than PAUSED before that commit, changes current_units or appends a
\* transaction.
C28_BreakerHoldsInFlight ==
    [][status = "PAUSED" =>
         /\ current_units' = current_units
         /\ transactions' = transactions]_vars


\* ----------------------------------------------------------------- C25
\* the Risk Filter's decision for the call that validate_bet was given
FilterDecisionOfCall ==
    RiskFilterValidate(call.args.filter, call.args.probability, call.args.ev,
                       CalendarPhase(call.args.month, call.args.day))

DegradedCall ==
    /\ Returned("validate_bet") /\ status = "DEGRADED"
    /\ ~EarlyDate(call.args.month, call.args.day)

\* C25 as stated: on a DEGRADED ledger and a date outside the EARLY phase
\* validate_bet returns the Risk Filter's decision with allowed and
\* aggressiveness unchanged and the DEGRADED warning added to its reasons.
C25_WarningAdded ==
    DegradedCall =>
        /\ call.out.allowed = FilterDecisionOfCall.allowed
        /\ call.out.aggressiveness = FilterDecisionOfCall.aggressiveness
        /\ call.out.reasons =
              Append(FilterDecisionOfCall.reasons, "DEGRADED_WARNING")

\* C25, amended: allowed and aggressiveness are the Risk Filter's; the
\* warning is added to the reasons when the filter allowed the bet, and a
\* blocked decision keeps the filter's reasons as they are.
C25_WarningAddedWhenAllowed ==
    DegradedCall =>
        /\ call.out.allowed = FilterDecisionOfCall.allowed
        /\ call.out.aggressiveness = FilterDecisionOfCall.aggressiveness
        /\ call.out.reasons =
              IF FilterDecisionOfCall.allowed
              THEN Append(FilterDecisionOfCall.reasons, "DEGRADED_WARNING")
              ELSE FilterDecisionOfCall.reasons

\* an allowed February bet on a DEGRADED ledger: half aggressiveness kept,
\* the pre-deadline note and the warning both in the reasons
C25_Witness ==
    /\ DegradedCall /\ call.out.allowed
    /\ call.out.aggressiveness = <<1, 2>>
    /\ call.out.reasons[Len(call.out.reasons)] = "DEGRADED_WARNING"
    /\ Len(call.out.reasons) = 2


\* ----------------------------------------------------------------- C21
ReasonTags == {"DEAD_ZONE", "MIN_PROBABILITY", "MIN_EV", "EARLY_SEASON",
               "PRE_DEADLINE_WARNING", "NON_POSITIVE_EV", "CIRCUIT_BREAKER",
               "HARD_RULE_EARLY_SEASON", "DEGRADED_WARNING"}

\* a RiskDecision: allowed flag, reasons, aggressiveness in [0, 1]; a
\* blocked one names at least one reason and has aggressiveness 0
StructuredRiskDecision(d) ==
    /\ DOMAIN d = {"allowed", "reasons", "aggressiveness"}
    /\ d.allowed \in BOOLEAN
    /\ d.reasons \in Seq(ReasonTags)
    /\ FracLe(FracZero, d.aggressiveness) /\ FracLe(d.aggressiveness, FracOne)
    /\ ~d.allowed => (Len(d.reasons) >= 1 /\ d.aggressiveness = FracZero)

BadBetInput ==
    \/ FracLt(call.args.probability, FracZero)
    \/ FracLt(FracOne, call.args.probability)
    \/ FracLe(call.args.odds, FracOne)

\* C21: validate and validate_bet return a structured RiskDecision for
\* every input, also for probabilities outside [0, 1], on a PAUSED ledger
\* and on an EARLY date (blocked, with a reason); process_bet returns BET,
\* PASS or BLOCKED, and for a probability outside [0, 1] or odds <= 1 a PASS
\* or BLOCKED decision with stake 0 and a reason.
C21_NeverRaise ==
    /\ Returned("validate") => StructuredRiskDecision(call.out)
    /\ Returned("validate_bet") =>
          /\ StructuredRiskDecision(call.out)
          /\ (status = "PAUSED" \/ EarlyDate(call.args.month, call.args.day))
                => (~call.out.allowed /\ Len(call.out.reasons) = 1)
    /\ Returned("process_bet") =>
          /\ call.out.decision \in {"BET", "PASS", "BLOCKED"}
          /\ BadBetInput =>
                /\ call.out.decision \in {"PASS", "BLOCKED"}
                /\ call.out.stake_units = FracZero
                /\ Len(call.out.reason) >= 1

\* process_bet was given the probability -0.10 and passed
C21_Witness ==
    /\ Returned("process_bet") /\ call.args.probability = Pct(-10)
    /\ call.out.decision = "PASS" /\ call.out.reason = <<"INVALID_PROBABILITY">>


\* ----------------------------------------------------------------- C26
BetMade == BetReturned /\ decision.decision = "BET"

FracMin(f, g) == IF FracLt(g, f) THEN g ELSE f

FracAbs(f) == <<Abs(f[1]), f[2]>>

\* 5% of the snapshot's current_units
SnapshotCap == FracMul(UnitsOf(bet.snapshot.current_units), Pct(5))

\* min(current_units * f* * kelly_fraction * aggressiveness, 0.05 * current_units)
\* on the snapshot, with kelly_fraction by the snapshot's status and
\* aggressiveness by the month of the date
SnapshotStake ==
    LET kelly == IF bet.snapshot.status = "ACTIVE" THEN Pct(25) ELSE Pct(10)
        aggressiveness == IF bet.month = 2 THEN <<1, 2>> ELSE FracOne
        raw == FracMul(FracMul(FracMul(UnitsOf(bet.snapshot.current_units),
                                       KellyFormula(bet.probability, bet.odds)),
                               kelly), aggressiveness)
    IN FracMin(raw, SnapshotCap)

\* C26 as stated: a BET carries exactly the stake
\* min(current_units * f* * kelly_fraction * aggressiveness, 0.05 * current_units)
\* of the snapshot.
C26_StakeFromSnapshot ==
    BetMade => decision.stake_units = SnapshotStake

\* C26, amended: a BET carries that stake rounded to four decimals, that is
\* a multiple of 0.0001 at most 0.00005 away from it.
C26_StakeFromSnapshotRounded ==
    BetMade =>
        /\ 10000 % decision.stake_units[2] = 0
        /\ FracLe(FracAbs(FracSub(decision.stake_units, SnapshotStake)),
                  <<1, 20000>>)

\* a DEGRADED ledger in February: 75 * 0.2 * 0.10 * 0.5 = 0.75 units
C26_Witness ==
    /\ BetMade /\ bet.snapshot.status = "DEGRADED" /\ bet.month = 2
    /\ bet.snapshot.current_units = Units(75)
    /\ decision.stake_units = <<3, 4>>

\* ----------------------------------------------------------------- C30
\* C30: a BET was sized on a snapshot that is ACTIVE or DEGRADED, for a date
\* outside the EARLY phase, a probability >= 0.55 and an EV >= 0.03, with
\* 0.01 <= stake_units <= 5% of the snapshot's current_units; a PASS or
\* BLOCKED decision has stake_units 0.  Ledger updates may come between the
\* reads of process_bet.
C30_BetConditions ==
    BetReturned =>
        IF decision.decision = "BET"
        THEN /\ bet.snapshot.status \in {"ACTIVE", "DEGRADED"}
             /\ ~EarlyDate(bet.month, bet.day)
             /\ FracLe(Pct(55), bet.probability)
             /\ FracLe(Pct(3), FracSub(FracMul(bet.probability, bet.odds), FracOne))
             /\ FracLe(<<1, 100>>, decision.stake_units)
             /\ FracLe(decision.stake_units, SnapshotCap)
        ELSE /\ decision.decision \in {"PASS", "BLOCKED"}
             /\ decision.stake_units = FracZero


\* ----------------------------------------------------------------- C22
\* C22: a season that fails in a Monte Carlo batch is caught and left out of
\* the aggregate; the other seasons complete and are aggregated, and the
\* batch is not aborted.
C22_FailureIsolated ==
    sim.entry # "none" => sim.state # "aborted"

\* ----------------------------------------------------------------- C24
\* what C24 says of the dictionary r a season returned
RuinReported(r) ==
    /\ r.bankrupt <=> r.fell_after >= 0
    /\ r.bankrupt => r.games = r.fell_after + 1
    /\ ~r.bankrupt => FracLe(FracOfInt(RuinThreshold), r.final_bankroll)

\* C24: a season is returned with bankrupt = true exactly when its balance
\* fell below the ruin threshold of 10 units after some game, no game after
\* that one was evaluated, and a season returned with bankrupt = false has
\* a final_bankroll of at least 10.
C24_BankruptIffBelowThreshold ==
    sim.entry # "none" =>
        \A k \in 1..Len(sim.results) : RuinReported(sim.results[k])

\* ----------------------------------------------------------------- C27
\* C27: over the same sampled seasons and the same fractional Kelly, the
\* share of seasons with bankrupt = true does not go down from one scenario
\* to a scenario with a more severe negative prob_bias (0, -0.05, -0.10).
C27_RuinMonotoneInBias ==
    sim.entry # "none" =>
        \A a, b \in 1..Len(sim.summary) :
            (sim.summary[b].prob_bias < sim.summary[a].prob_bias
             /\ sim.summary[a].seasons = sim.summary[b].seasons)
                => sim.summary[a].ruined <= sim.summary[b].ruined

====
